---- MODULE Spec2Model ----
(***************************************************************************)
(* Model of the chickadee cooking timer: the TimerManager store kept in    *)
(* localStorage under the key 'cookingTimer' (timer.js), the timer control *)
(* handlers that drive it, the serving-size handler of recipe-data.js, and  *)
(* the pure functions of TimelineManager (timeline.js).                    *)
(***************************************************************************)
EXTENDS Integers, Sequences, FiniteSets, TLC

VARIABLES
    now,                \* Date.now(), in milliseconds
    storage,            \* the text held by localStorage under 'cookingTimer'
    currentRecipeSlug,  \* timer.js: let currentRecipeSlug
    timerInterval,      \* timer.js: let timerInterval (0 models null)
    intervals,          \* handles of the intervals the browser still fires
    controls,           \* the 'hidden' class of the timer controls
    elapsedShown,       \* seconds last written to #elapsed-time (-1: as rendered)
    pauseMark,          \* history: elapsedMs read just before the last pause
    lastOp,             \* history: the handler that ran last, and how it ended
    tl,                 \* a TimelineManager call: the timeline array as first given
                        \* and as it is now, elapsedMinutes, and what was returned
    cards,              \* the .step-ticket cards of the page, in document order
    tabs,               \* two tabs on the one store: where each is in its handler,
                        \* and what it read
    written,            \* history: per recipe, the entry last written and by which tab
    run,                \* a run of the repository's scripts: what they were given
                        \* and what they made of it
    script              \* the copy of timer.js the page loads: the one that
                        \* drives .step-ticket cards (src/unnamed/part_002) or
                        \* the one that drives .step-card cards
                        \* (src/src/js/timer.js)

vars == <<now, storage, currentRecipeSlug, timerInterval, intervals, controls,
          elapsedShown, pauseMark, lastOp, tl, cards, tabs, written, run, script>>

----------------------------------------------------------------------------
(* Bounds of the model *)

T0 == 1000
ClockStep == 500
MaxAdvances == 2
MaxNow == T0 + MaxAdvances * ClockStep
MaxLen == 3         \* items in a timeline
MaxMinute == 2      \* latest startMinute and longest durationMinutes

Slugs == {"a", "b"}
Servings == {2, 4}
NullSlug == "null"

(* Program constants *)
MsPerSecond == 1000
MsPerMinute == 60000
SecondsPerMinute == 60
SecondsPerHour == 3600
DefaultServing == 4

----------------------------------------------------------------------------
(* JavaScript values: a tag and a payload *)

Num(n) == [t |-> "number", v |-> n]
Bool(b) == [t |-> "boolean", v |-> IF b THEN 1 ELSE 0]
Str(i) == [t |-> "string", v |-> i]
Null == [t |-> "null", v |-> 0]
Undefined == [t |-> "undefined", v |-> 0]
NaN == [t |-> "NaN", v |-> 0]

\* ToBoolean, as used by !x, x && y and if (x)
Truthy(x) ==
    \/ x.t = "number" /\ x.v # 0
    \/ x.t = "boolean" /\ x.v = 1
    \/ x.t = "string"

\* ToNumber
ToNumber(x) ==
    CASE x.t = "number" -> x
      [] x.t = "boolean" -> Num(x.v)
      [] x.t = "null" -> Num(0)
      [] OTHER -> NaN

\* x - y
Sub(x, y) ==
    LET a == ToNumber(x)
        b == ToNumber(y)
    IN IF a.t = "number" /\ b.t = "number" THEN Num(a.v - b.v) ELSE NaN

\* x + y on the operands the timer uses (no strings)
Add(x, y) ==
    LET a == ToNumber(x)
        b == ToNumber(y)
    IN IF a.t = "number" /\ b.t = "number" THEN Num(a.v + b.v) ELSE NaN

----------------------------------------------------------------------------
(* A timer state object, and its JSON text *)

Fields == {"startTime", "servingSize", "currentStepId", "isPaused", "pausedAt"}

\* {}: an object none of whose properties is defined
EmptyObject == [f \in Fields |-> Undefined]

\* JSON.stringify of one property value: NaN is written as null
ToJson(x) == IF x.t = "NaN" THEN Null ELSE x

\* StringifyState with null-valued properties left out as well
StringifyStateDropNull(o) ==
    [f \in {g \in Fields : o[g].t \notin {"undefined", "null", "NaN"}} |-> o[f]]

\* JSON.stringify of a state object: undefined properties are left out
StringifyState(o) ==
    [f \in {g \in Fields : o[g].t # "undefined"} |-> ToJson(o[f])]

\* JSON.parse of the text of a state object: a missing key reads as undefined
ParseState(e) ==
    [f \in Fields |-> IF f \in DOMAIN e THEN e[f] ELSE Undefined]

\* JSON.stringify / JSON.parse of the outer mapping slug -> state
StringifyMap(m) == [s \in DOMAIN m |-> StringifyState(m[s])]
ParseMap(j) == [s \in DOMAIN j |-> ParseState(j[s])]

EmptyMap == [s \in {} |-> EmptyObject]

\* localStorage.getItem gives null: nothing stored under the key
NoItem == [kind |-> "none", map |-> EmptyMap]
\* text that JSON.parse rejects
CorruptItem == [kind |-> "corrupt", map |-> EmptyMap]
JsonItem(j) == [kind |-> "json", map |-> j]

----------------------------------------------------------------------------
(* TimerManager *)

\* what a call gives back: a state object, null, or a thrown exception
ResObject(o) == [k |-> "object", o |-> o]
ResNull == [k |-> "null", o |-> EmptyObject]
ResThrow == [k |-> "throw", o |-> EmptyObject]

getState(st, recipeSlug) ==
    IF st.kind = "none" THEN ResNull                     \* if (!data) return null
    ELSE IF st.kind = "corrupt" THEN ResThrow            \* JSON.parse throws
    ELSE LET parsed == ParseMap(st.map)
         IN IF recipeSlug \in DOMAIN parsed              \* parsed[slug] || null
            THEN ResObject(parsed[recipeSlug])
            ELSE ResNull

\* the map with key recipeSlug set to state
Assign(parsed, recipeSlug, state) ==
    [s \in DOMAIN parsed \cup {recipeSlug} |->
        IF s = recipeSlug THEN state ELSE parsed[s]]

\* the map with key recipeSlug deleted
Delete(parsed, recipeSlug) ==
    [s \in DOMAIN parsed \ {recipeSlug} |-> parsed[s]]

\* setState writing a mapping that holds the one recipe only
setStateFresh(st, recipeSlug, state) ==
    IF st.kind = "corrupt" THEN [threw |-> TRUE, storage |-> st]
    ELSE [threw |-> FALSE,
          storage |-> JsonItem(StringifyMap(Assign(EmptyMap, recipeSlug, state)))]

\* setState that keeps the pausedAt of the entry it replaces
setStateKeepStamp(st, recipeSlug, state) ==
    IF st.kind = "corrupt" THEN [threw |-> TRUE, storage |-> st]
    ELSE LET parsed == IF st.kind = "none" THEN EmptyMap ELSE ParseMap(st.map)
             merged == IF recipeSlug \in DOMAIN parsed
                       THEN [state EXCEPT !.pausedAt = parsed[recipeSlug].pausedAt]
                       ELSE state
         IN [threw |-> FALSE,
             storage |-> JsonItem(StringifyMap(Assign(parsed, recipeSlug, merged)))]

\* gives [threw, storage]: whether it threw and the text stored afterwards
setState(st, recipeSlug, state) ==
    IF st.kind = "corrupt" THEN [threw |-> TRUE, storage |-> st]
    ELSE LET parsed == IF st.kind = "none" THEN EmptyMap ELSE ParseMap(st.map)
         IN [threw |-> FALSE,
             storage |-> JsonItem(StringifyMap(Assign(parsed, recipeSlug, state)))]

\* clearState without the delete
clearStateKeep(st, recipeSlug) ==
    IF st.kind = "none" THEN [threw |-> FALSE, storage |-> st]
    ELSE IF st.kind = "corrupt" THEN [threw |-> TRUE, storage |-> st]
    ELSE [threw |-> FALSE, storage |-> JsonItem(StringifyMap(ParseMap(st.map)))]

clearState(st, recipeSlug) ==
    IF st.kind = "none" THEN [threw |-> FALSE, storage |-> st]      \* if (!data) return
    ELSE IF st.kind = "corrupt" THEN [threw |-> TRUE, storage |-> st]
    ELSE [threw |-> FALSE,
          storage |-> JsonItem(StringifyMap(Delete(ParseMap(st.map), recipeSlug)))]

\* getElapsedMs without the paused branch
getElapsedMsNoPause(st, recipeSlug, t) ==
    LET r == getState(st, recipeSlug)
        state == r.o
    IN IF r.k = "throw" THEN [threw |-> TRUE, val |-> Undefined]
       ELSE IF r.k = "null" \/ ~Truthy(state.startTime)
            THEN [threw |-> FALSE, val |-> Num(0)]
       ELSE [threw |-> FALSE, val |-> Sub(Num(t), state.startTime)]

\* gives [threw, val]; t is Date.now()
getElapsedMs(st, recipeSlug, t) ==
    LET r == getState(st, recipeSlug)
        state == r.o
    IN IF r.k = "throw" THEN [threw |-> TRUE, val |-> Undefined]
       ELSE IF r.k = "null" \/ ~Truthy(state.startTime)
            THEN [threw |-> FALSE, val |-> Num(0)]
       ELSE IF Truthy(state.isPaused) /\ Truthy(state.pausedAt)
            THEN [threw |-> FALSE, val |-> Sub(state.pausedAt, state.startTime)]
       ELSE [threw |-> FALSE, val |-> Sub(Num(t), state.startTime)]

----------------------------------------------------------------------------
(* The DOM the handlers write *)

\* TRUE: the element carries the class 'hidden'
ControlsRunning ==
    [timerStatus |-> FALSE, start |-> TRUE, pause |-> FALSE, resume |-> TRUE,
     reset |-> FALSE, countdowns |-> FALSE, label |-> "firing"]
ControlsPaused ==
    [timerStatus |-> FALSE, start |-> TRUE, pause |-> TRUE, resume |-> FALSE,
     reset |-> FALSE, countdowns |-> FALSE, label |-> "held"]
ControlsStopped ==
    [timerStatus |-> TRUE, start |-> FALSE, pause |-> TRUE, resume |-> TRUE,
     reset |-> TRUE, countdowns |-> TRUE, label |-> "ready"]

\* the page as rendered, before any handler ran: only the start button shows
TemplateControls == ControlsStopped

\* the two copies of timer.js, named by the cards they drive
TicketScript == "step-ticket"
CardScript == "step-card"

\* what showTimerRunning, showTimerPaused and showTimerStopped leave: the copy
\* that drives .step-card has no updateTimerStatusLabel, so the label stays as
\* rendered
ShowControls(c) ==
    IF script = CardScript THEN [c EXCEPT !.label = TemplateControls.label] ELSE c

\* clearInterval(h); clearInterval(null) does nothing
ClearInterval(set, h) == set \ {h}

\* the handle setInterval gives: one not in use
NewHandle(set) == CHOOSE h \in 1..(Cardinality(set) + 1) : h \notin set

\* formatTime: the numbers it prints, two digits each, hours only when not 0
formatTime(totalSeconds) ==
    LET hours == totalSeconds \div SecondsPerHour
        minutes == (totalSeconds % SecondsPerHour) \div SecondsPerMinute
        seconds == totalSeconds % SecondsPerMinute
    IN IF hours > 0 THEN <<hours, minutes, seconds>> ELSE <<minutes, seconds>>

\* the text of a card's .step-countdown
TextPlaceholder == [kind |-> "--:--", time |-> <<>>]
TextNow == [kind |-> "Now", time |-> <<>>]
\* 'Now!' after a check mark, the text of a .step-card that has begun
TextNowCard == [kind |-> "Now!", time |-> <<>>]
TextCountdown(remainingSeconds) == [kind |-> "T-", time |-> formatTime(remainingSeconds)]

\* the state classes of a .step-ticket, without the 'step-ticket--' prefix
TicketClasses == {"waiting", "firing", "done", "next"}

\* the classes a .step-card carries for the next step
CardNextClasses == {"border-2", "border-accent"}

\* --- The arithmetic of JavaScript numbers (IEEE 754 binary64, results rounded
\* to the nearest number of MantissaBits bits, ties to even) for the quotient,
\* difference and product updateStepCountdowns computes. A natural number is a
\* sequence of limbs of LimbBits bits, the lowest first; a double is
\* mant * 2^exp. ---
LimbBits == 15
Limb == 32768
MantissaBits == 53
\* limbs of the fraction a quotient is computed to before it is rounded: past
\* the 16 zero bits a quotient may begin with they hold more than MantissaBits
FractionLimbs == 5

\* PowersOf2[n + 1] is 2^n, for n in 0..LimbBits
PowersOf2 == <<1, 2, 4, 8, 16, 32, 64, 128, 256, 512, 1024, 2048, 4096, 8192,
               16384, 32768>>

Limbs(N, i) == IF i >= 1 /\ i <= Len(N) THEN N[i] ELSE 0

RECURSIVE BigOf(_)
BigOf(n) == IF n = 0 THEN <<>> ELSE <<n % Limb>> \o BigOf(n \div Limb)

RECURSIVE IntOf(_)
IntOf(N) == IF N = <<>> THEN 0 ELSE N[1] + Limb * IntOf(Tail(N))

\* the number of bits of N
RECURSIVE BitLen(_)
BitLen(N) ==
    IF N = <<>> THEN 0
    ELSE IF N[Len(N)] = 0 THEN BitLen(SubSeq(N, 1, Len(N) - 1))
    ELSE LimbBits * (Len(N) - 1)
         + (CHOOSE n \in 1..LimbBits : PowersOf2[n] <= N[Len(N)] /\ N[Len(N)] < PowersOf2[n + 1])

\* bit j of N, the lowest being bit 0
Bit(N, j) == (Limbs(N, j \div LimbBits + 1) \div PowersOf2[(j % LimbBits) + 1]) % 2

\* some bit of N below bit j is set
AnyBitBelow(N, j) ==
    LET q == j \div LimbBits
    IN \/ \E i \in 1..Len(N) : i <= q /\ N[i] # 0
       \/ Limbs(N, q + 1) % PowersOf2[(j % LimbBits) + 1] # 0

\* N * 2^s
ShiftLeft(N, s) ==
    LET q == s \div LimbBits
        up == PowersOf2[(s % LimbBits) + 1]
        down == PowersOf2[LimbBits - (s % LimbBits) + 1]
    IN [i \in 1..(Len(N) + q + 1) |->
          ((Limbs(N, i - q) * up) % Limb) + (Limbs(N, i - q - 1) \div down)]

\* N \div 2^s
ShiftRight(N, s) ==
    LET q == s \div LimbBits
        down == PowersOf2[(s % LimbBits) + 1]
        up == PowersOf2[LimbBits - (s % LimbBits) + 1]
    IN [i \in 1..(IF Len(N) > q THEN Len(N) - q ELSE 0) |->
          (Limbs(N, i + q) \div down) + ((Limbs(N, i + q + 1) % down) * up)]

RECURSIVE AddFrom(_, _, _, _)
AddFrom(N, M, i, carry) ==
    IF i > Len(N) /\ i > Len(M) THEN (IF carry = 0 THEN <<>> ELSE <<carry>>)
    ELSE LET t == Limbs(N, i) + Limbs(M, i) + carry
         IN <<t % Limb>> \o AddFrom(N, M, i + 1, t \div Limb)

\* N - M for N >= M
RECURSIVE SubtractFrom(_, _, _, _)
SubtractFrom(N, M, i, borrow) ==
    IF i > Len(N) THEN <<>>
    ELSE LET t == Limbs(N, i) - Limbs(M, i) - borrow
         IN IF t < 0 THEN <<t + Limb>> \o SubtractFrom(N, M, i + 1, 1)
            ELSE <<t>> \o SubtractFrom(N, M, i + 1, 0)

\* N * k for a k below Limb
RECURSIVE TimesFrom(_, _, _, _)
TimesFrom(N, k, i, carry) ==
    IF i > Len(N) THEN (IF carry = 0 THEN <<>> ELSE <<carry>>)
    ELSE LET t == N[i] * k + carry
         IN <<t % Limb>> \o TimesFrom(N, k, i + 1, t \div Limb)

\* the double nearest to N * 2^exp, or, with inexact set, to a value just above
\* it; ties go to the even mantissa
RoundToDouble(N, exp, inexact) ==
    LET s == BitLen(N) - MantissaBits
    IN IF s <= 0 THEN [mant |-> N, exp |-> exp]
       ELSE LET up == /\ Bit(N, s - 1) = 1
                      /\ (inexact \/ AnyBitBelow(N, s - 1) \/ Bit(N, s) = 1)
            IN [mant |-> IF up THEN AddFrom(ShiftRight(N, s), <<1>>, 1, 0)
                         ELSE ShiftRight(N, s),
                exp |-> exp + s]

\* long division: n limbs of the fraction r / b, the lowest first, and what is
\* left over
RECURSIVE FractionOf(_, _, _)
FractionOf(r, b, n) ==
    IF n = 0 THEN [limbs |-> <<>>, rem |-> r]
    ELSE LET rest == FractionOf((r * Limb) % b, b, n - 1)
         IN [limbs |-> rest.limbs \o <<(r * Limb) \div b>>, rem |-> rest.rem]

\* a / b in doubles, for integers a >= 0 and 0 < b < 2 * Limb
DoubleQuotient(a, b) ==
    IF a % b = 0 THEN [mant |-> BigOf(a \div b), exp |-> 0]
    ELSE LET f == FractionOf(a % b, b, FractionLimbs)
         IN RoundToDouble(f.limbs \o BigOf(a \div b), 0 - LimbBits * FractionLimbs,
                          f.rem # 0)

\* Math.floor((startMinute - elapsedMs / 60000) * 60) where the difference is
\* positive: each of the quotient, the difference and the product is rounded
\* to a double, so that the result is one second short of the exact one at
\* some whole seconds (31 s before a card's start the product is below 31).
\* A negative elapsedMs makes the quotient negative and the difference a sum.
remainingSeconds(startMinute, elapsedMs) ==
    LET elapsedMinutes == DoubleQuotient(IF elapsedMs < 0 THEN 0 - elapsedMs ELSE elapsedMs,
                                         MsPerMinute)
        start == ShiftLeft(BigOf(startMinute), 0 - elapsedMinutes.exp)
        remainingMinutes ==
            RoundToDouble(IF elapsedMs < 0
                          THEN AddFrom(start, elapsedMinutes.mant, 1, 0)
                          ELSE SubtractFrom(start, elapsedMinutes.mant, 1, 0),
                          elapsedMinutes.exp, FALSE)
        product == RoundToDouble(TimesFrom(remainingMinutes.mant, SecondsPerMinute, 1, 0),
                                 remainingMinutes.exp, FALSE)
    IN IntOf(IF product.exp >= 0 THEN ShiftLeft(product.mant, product.exp)
             ELSE ShiftRight(product.mant, 0 - product.exp))

\* A step card (.step-ticket or .step-card): its data attributes (whole
\* minutes; durationMinutes may be missing), whether it carries 'hidden', its
\* other classes (the state classes of a .step-ticket; 'opacity-60', 'border-2'
\* and 'border-accent' of a .step-card), and of its .step-countdown the text,
\* the 'step-countdown--done' class (countdownDone) and the classes
\* 'text-success' and 'text-accent' a .step-card's countdown is given
\* (countdownClasses). The comparisons of minutes are made in milliseconds,
\* elapsedMinutes being elapsedMs / 60000: rounding the quotient and the
\* difference to doubles changes none of them.
StartMs(card) == card.startMinute * MsPerMinute
EndMs(card) ==
    (card.startMinute + (IF Truthy(card.durationMinutes) THEN card.durationMinutes.v ELSE 0))
        * MsPerMinute

\* the forEach body of updateStepCountdowns that hides a card once its end is
\* reached
UpdateCardHideAtEnd(card, elapsedMs) ==
    LET remainingMs == StartMs(card) - elapsedMs
    IN IF EndMs(card) > 0 /\ elapsedMs >= EndMs(card)
       THEN [card EXCEPT !.hidden = TRUE]
       ELSE IF remainingMs <= 0
       THEN [card EXCEPT !.hidden = FALSE, !.classes = (@ \ TicketClasses) \cup {"done"},
                         !.text = TextNow, !.countdownDone = TRUE]
       ELSE [card EXCEPT !.hidden = FALSE, !.classes = (@ \ TicketClasses) \cup {"waiting"},
                         !.text = TextCountdown(remainingSeconds(card.startMinute, elapsedMs)),
                         !.countdownDone = FALSE]

\* the forEach body of updateStepCountdowns that marks a card done only after
\* its start
UpdateCardDoneLate(card, elapsedMs) ==
    LET remainingMs == StartMs(card) - elapsedMs
    IN IF EndMs(card) > 0 /\ elapsedMs > EndMs(card)
       THEN [card EXCEPT !.hidden = TRUE]
       ELSE IF remainingMs < 0
       THEN [card EXCEPT !.hidden = FALSE, !.classes = (@ \ TicketClasses) \cup {"done"},
                         !.text = TextNow, !.countdownDone = TRUE]
       ELSE [card EXCEPT !.hidden = FALSE, !.classes = (@ \ TicketClasses) \cup {"waiting"},
                         !.text = TextCountdown(remainingSeconds(card.startMinute, elapsedMs)),
                         !.countdownDone = FALSE]

\* the forEach body of updateStepCountdowns without the branch that hides a
\* card whose end has passed
UpdateCardNoHide(card, elapsedMs) ==
    LET remainingMs == StartMs(card) - elapsedMs
    IN IF remainingMs <= 0
       THEN [card EXCEPT !.hidden = FALSE, !.classes = (@ \ TicketClasses) \cup {"done"},
                         !.text = TextNow, !.countdownDone = TRUE]
       ELSE [card EXCEPT !.hidden = FALSE, !.classes = (@ \ TicketClasses) \cup {"waiting"},
                         !.text = TextCountdown(remainingSeconds(card.startMinute, elapsedMs)),
                         !.countdownDone = FALSE]

\* the forEach body of updateStepCountdowns on a .step-card: the step that has
\* begun is dimmed and reads 'Now!' after a check mark, in 'text-success'; the
\* step to come reads the time alone, in 'text-accent'
UpdateStepCard(card, elapsedMs) ==
    LET remainingMs == StartMs(card) - elapsedMs
    IN IF EndMs(card) > 0 /\ elapsedMs > EndMs(card)
       THEN [card EXCEPT !.hidden = TRUE]
       ELSE IF remainingMs <= 0
       THEN [card EXCEPT !.hidden = FALSE, !.classes = @ \cup {"opacity-60"},
                         !.text = TextNowCard,
                         !.countdownClasses = (@ \cup {"text-success"}) \ {"text-accent"}]
       ELSE [card EXCEPT !.hidden = FALSE, !.classes = @ \ {"opacity-60"},
                         !.text = [kind |-> "",
                                   time |-> formatTime(remainingSeconds(card.startMinute,
                                                                        elapsedMs))],
                         !.countdownClasses = (@ \ {"text-success"}) \cup {"text-accent"}]

\* the forEach body of updateStepCountdowns, of the copy the page loads
UpdateCard(card, elapsedMs) ==
    LET remainingMs == StartMs(card) - elapsedMs
    IN IF script = CardScript THEN UpdateStepCard(card, elapsedMs)
       ELSE IF EndMs(card) > 0 /\ elapsedMs > EndMs(card)
       THEN [card EXCEPT !.hidden = TRUE]
       ELSE IF remainingMs <= 0
       THEN [card EXCEPT !.hidden = FALSE, !.classes = (@ \ TicketClasses) \cup {"done"},
                         !.text = TextNow, !.countdownDone = TRUE]
       ELSE [card EXCEPT !.hidden = FALSE, !.classes = (@ \ TicketClasses) \cup {"waiting"},
                         !.text = TextCountdown(remainingSeconds(card.startMinute, elapsedMs)),
                         !.countdownDone = FALSE]

\* the forEach of highlightNextStep from card i on: the position of nextStep
\* (0 for null) with its minRemaining (not read while nextStep is null)
RECURSIVE NextCardFrom(_, _, _, _, _)
NextCardFrom(cds, elapsedMs, i, nextStep, minRemaining) ==
    IF i > Len(cds) THEN [nextStep |-> nextStep, minRemaining |-> minRemaining]
    ELSE LET remaining == StartMs(cds[i]) - elapsedMs
         IN IF remaining > 0 /\ (nextStep = 0 \/ remaining < minRemaining)
            THEN NextCardFrom(cds, elapsedMs, i + 1, i, remaining)
            ELSE NextCardFrom(cds, elapsedMs, i + 1, nextStep, minRemaining)

\* highlightNextStep on .step-card cards: the next step is given the accent
\* border, and nothing marks it when it is about to start
highlightNextStepCard(cds, elapsedMs) ==
    LET n == NextCardFrom(cds, elapsedMs, 1, 0, 0)
    IN [i \in DOMAIN cds |->
          [cds[i] EXCEPT !.classes =
              (@ \ CardNextClasses)
              \cup (IF i = n.nextStep THEN CardNextClasses ELSE {})]]

\* highlightNextStep of the copy the page loads;
\* remaining < 0.5 is 2 * remainingMs < 60000
highlightNextStep(cds, elapsedMs) ==
    LET n == NextCardFrom(cds, elapsedMs, 1, 0, 0)
    IN IF script = CardScript THEN highlightNextStepCard(cds, elapsedMs)
       ELSE [i \in DOMAIN cds |->
               [cds[i] EXCEPT !.classes =
                   (@ \ {"next", "firing"})
                   \cup (IF i = n.nextStep THEN {"next"} ELSE {})
                   \cup (IF i = n.nextStep /\ 2 * n.minRemaining < MsPerMinute
                         THEN {"firing"} ELSE {})]]

updateStepCountdowns(cds, elapsedMs) ==
    highlightNextStep([i \in DOMAIN cds |-> UpdateCard(cds[i], elapsedMs)], elapsedMs)

\* resetStepDisplays on .step-card cards: the dimming and the border are
\* removed and the countdown's text and 'text-success' are reset; 'hidden' is
\* left as it is
resetStepCardDisplays(cds) ==
    [i \in DOMAIN cds |->
        [cds[i] EXCEPT
            !.classes = @ \ ({"opacity-60"} \cup CardNextClasses),
            !.text = TextPlaceholder,
            !.countdownClasses = @ \ {"text-success"}]]

\* resetStepDisplays of the copy the page loads
resetStepDisplays(cds) ==
    IF script = CardScript THEN resetStepCardDisplays(cds)
    ELSE [i \in DOMAIN cds |->
            [cds[i] EXCEPT
                !.hidden = FALSE,
                !.classes = IF i = 1 THEN (@ \ {"done", "firing", "waiting"}) \cup {"next"}
                            ELSE (@ \ {"done", "firing", "next"}) \cup {"waiting"},
                !.text = TextPlaceholder,
                !.countdownDone = FALSE]]

\* a card as the page shows it before any handler ran
RenderedCard(startMinute, durationMinutes) ==
    [startMinute |-> startMinute, durationMinutes |-> durationMinutes,
     hidden |-> FALSE, classes |-> IF script = CardScript THEN {} ELSE {"waiting"},
     text |-> TextPlaceholder, countdownDone |-> FALSE, countdownClasses |-> {}]

\* the cards of the page as rendered: the first .step-ticket is marked next
RenderedCards(cds) ==
    resetStepDisplays([i \in DOMAIN cds |->
                          RenderedCard(cds[i].startMinute, cds[i].durationMinutes)])

\* the cards after updateTimerDisplay ran (a page without cards has none to
\* update)
updateTimerDisplayCards(slug, st, t, cds) ==
    IF slug = NullSlug \/ cds = <<>> THEN cds
    ELSE LET e == getElapsedMs(st, slug, t)
         IN IF e.threw THEN cds ELSE updateStepCountdowns(cds, e.val.v)

\* updateTimerDisplay that counts the ticks instead of reading the clock
updateTimerDisplayCounting(slug, st, t, shown) ==
    IF slug = NullSlug THEN [threw |-> FALSE, shown |-> shown]
    ELSE LET e == getElapsedMs(st, slug, t)
         IN IF e.threw THEN [threw |-> TRUE, shown |-> shown]
            ELSE [threw |-> FALSE, shown |-> shown + 1]

\* gives [threw, shown]: the seconds written to #elapsed-time
updateTimerDisplay(slug, st, t, shown) ==
    IF slug = NullSlug THEN [threw |-> FALSE, shown |-> shown]
    ELSE LET e == getElapsedMs(st, slug, t)
         IN IF e.threw THEN [threw |-> TRUE, shown |-> shown]
            ELSE [threw |-> FALSE, shown |-> e.val.v \div MsPerSecond]

\* startTimerInterval without the clearInterval of the handle it replaces
StartIntervalNoClear(ti, set) ==
    LET h == NewHandle(set)
    IN [timerInterval |-> h, intervals |-> set \cup {h}]

\* gives [timerInterval, intervals] after startTimerInterval's two first lines
StartInterval(ti, set) ==
    LET cleared == IF ti # 0 THEN ClearInterval(set, ti) ELSE set
        h == NewHandle(cleared)
    IN [timerInterval |-> h, intervals |-> cleared \cup {h}]

\* stopTimerInterval that starts a tick when none is active
StopIntervalToggle(ti, set) ==
    IF ti # 0 THEN [timerInterval |-> 0, intervals |-> ClearInterval(set, ti)]
    ELSE StartInterval(ti, set)

\* gives [timerInterval, intervals] after stopTimerInterval
StopInterval(ti, set) ==
    IF ti # 0 THEN [timerInterval |-> 0, intervals |-> ClearInterval(set, ti)]
    ELSE [timerInterval |-> ti, intervals |-> set]

\* the control state initTimer reads off a stored state
Started(st, slug) ==
    LET r == getState(st, slug)
    IN r.k = "object" /\ Truthy(r.o.startTime)
Paused(st, slug) == Started(st, slug) /\ Truthy(getState(st, slug).o.isPaused)
Running(st, slug) == Started(st, slug) /\ ~Truthy(getState(st, slug).o.isPaused)

\* history records. lastOp names the handler that ran last when it took effect
\* or threw; a handler that returned early, or only redrew, leaves Idle
OpOn(name, threw, slug, arg) == [op |-> name, threw |-> threw, slug |-> slug, arg |-> arg]
Op(name, threw) == OpOn(name, threw, NullSlug, Null)
Idle == Op("idle", FALSE)
NoMark == [phase |-> "none", slug |-> NullSlug, ms |-> 0, at |-> 0]
KeepPaused == IF pauseMark.phase = "paused" THEN pauseMark ELSE NoMark

----------------------------------------------------------------------------
(* TimelineManager (timeline.js): pure functions over a timeline *)

\* a top-level or nested cooking action; durationMinutes is optional
Action(id, startMinute, durationMinutes) ==
    [id |-> id, type |-> "action", startMinute |-> startMinute,
     durationMinutes |-> durationMinutes, isCriticalPath |-> Bool(FALSE),
     actions |-> <<>>]

\* a parallel block; the fields it does not have read as undefined
ParallelBlock(id, startMinute, actions) ==
    [id |-> id, type |-> "parallel", startMinute |-> startMinute,
     durationMinutes |-> Undefined, isCriticalPath |-> Undefined,
     actions |-> actions]

\* null, where a step is expected
NoStep ==
    [id |-> 0, type |-> "null", startMinute |-> 0, durationMinutes |-> Undefined,
     isCriticalPath |-> Undefined, actions |-> <<>>]

\* x || 0
OrZero(x) == IF Truthy(x) THEN x.v ELSE 0

\* the filter callback of getUpcomingSteps
IsUpcoming(item, elapsedMinutes) ==
    IF item.type = "action" THEN item.startMinute > elapsedMinutes
    ELSE IF item.type = "parallel" THEN item.startMinute > elapsedMinutes
    ELSE FALSE

\* the comparator (a, b) => a.startMinute - b.startMinute
ByStartMinute(a, b) == a.startMinute - b.startMinute

\* item put into a sorted sequence in front of the elements it ties with
RECURSIVE InsertBeforeTies(_, _)
InsertBeforeTies(sorted, item) ==
    IF sorted = <<>> THEN <<item>>
    ELSE IF ByStartMinute(Head(sorted), item) < 0
         THEN <<Head(sorted)>> \o InsertBeforeTies(Tail(sorted), item)
         ELSE <<item>> \o sorted

\* a sort by the comparator that reverses the order of ties
RECURSIVE SortTiesReversed(_)
SortTiesReversed(items) ==
    IF items = <<>> THEN <<>>
    ELSE InsertBeforeTies(SortTiesReversed(SubSeq(items, 1, Len(items) - 1)),
                          items[Len(items)])

\* item put into a sorted sequence behind every element the comparator does
\* not order after it
RECURSIVE InsertSorted(_, _)
InsertSorted(sorted, item) ==
    IF sorted = <<>> THEN <<item>>
    ELSE IF ByStartMinute(Head(sorted), item) <= 0
         THEN <<Head(sorted)>> \o InsertSorted(Tail(sorted), item)
         ELSE <<item>> \o sorted

\* Array.prototype.sort with ByStartMinute: a stable sort
RECURSIVE Sort(_)
Sort(items) ==
    IF items = <<>> THEN <<>>
    ELSE InsertSorted(Sort(SubSeq(items, 1, Len(items) - 1)), items[Len(items)])

\* getUpcomingSteps keeping the items that start at elapsedMinutes too
getUpcomingStepsFromNow(timeline, elapsedMinutes) ==
    LET Keep(item) == item.startMinute >= elapsedMinutes
    IN Sort(SelectSeq(timeline, Keep))

\* Arrays are held by reference: heap[r] is what array r holds. filter leaves
\* its array alone and gives a new one; sort rearranges the array it is called
\* on and gives that same array. Both give [heap, ref]. ArrayFilter is filter
\* with the test of getUpcomingSteps.
ArrayFilter(heap, r, elapsedMinutes) ==
    LET Keep(item) == IsUpcoming(item, elapsedMinutes)
    IN [heap |-> Append(heap, SelectSeq(heap[r], Keep)), ref |-> Len(heap) + 1]

ArraySort(heap, r) == [heap |-> [heap EXCEPT ![r] = Sort(@)], ref |-> r]

\* getUpcomingSteps sorting the array it was given before it filters
UpcomingArraysNoCopy(timeline, elapsedMinutes) ==
    LET sorted == ArraySort(<<timeline>>, 1)
    IN ArrayFilter(sorted.heap, sorted.ref, elapsedMinutes)

\* the arrays getUpcomingSteps leaves, the timeline it was given being array 1,
\* and the array it returns
UpcomingArrays(timeline, elapsedMinutes) ==
    LET filtered == ArrayFilter(<<timeline>>, 1, elapsedMinutes)
    IN ArraySort(filtered.heap, filtered.ref)

getUpcomingSteps(timeline, elapsedMinutes) ==
    LET a == UpcomingArrays(timeline, elapsedMinutes)
    IN a.heap[a.ref]

\* getNextStep taking the last upcoming step
getNextStepLast(timeline, elapsedMinutes) ==
    LET upcoming == getUpcomingSteps(timeline, elapsedMinutes)
    IN IF Len(upcoming) > 0 THEN upcoming[Len(upcoming)] ELSE NoStep

getNextStep(timeline, elapsedMinutes) ==
    LET upcoming == getUpcomingSteps(timeline, elapsedMinutes)
    IN IF Len(upcoming) > 0 THEN upcoming[1] ELSE NoStep

\* the test inside getCurrentStep's loop
InWindow(item, elapsedMinutes) ==
    /\ item.type = "action"
    /\ item.startMinute <= elapsedMinutes
    /\ item.startMinute + OrZero(item.durationMinutes) > elapsedMinutes

\* the loop of getCurrentStep over the rest of the timeline
RECURSIVE CurrentFrom(_, _, _)
CurrentFrom(rest, elapsedMinutes, current) ==
    IF rest = <<>> THEN current
    ELSE CurrentFrom(Tail(rest), elapsedMinutes,
                     IF InWindow(Head(rest), elapsedMinutes) THEN Head(rest)
                     ELSE current)

\* getCurrentStep with the window closed at its end
RECURSIVE CurrentFromClosed(_, _, _)
CurrentFromClosed(rest, elapsedMinutes, current) ==
    IF rest = <<>> THEN current
    ELSE LET item == Head(rest)
             in == /\ item.type = "action"
                   /\ item.startMinute <= elapsedMinutes
                   /\ item.startMinute + OrZero(item.durationMinutes) >= elapsedMinutes
         IN CurrentFromClosed(Tail(rest), elapsedMinutes,
                              IF in THEN item ELSE current)

getCurrentStepClosed(timeline, elapsedMinutes) ==
    CurrentFromClosed(timeline, elapsedMinutes, NoStep)

\* getCurrentStep that keeps the first match
RECURSIVE CurrentFromFirst(_, _, _)
CurrentFromFirst(rest, elapsedMinutes, current) ==
    IF rest = <<>> THEN current
    ELSE CurrentFromFirst(Tail(rest), elapsedMinutes,
                          IF InWindow(Head(rest), elapsedMinutes) /\ current = NoStep
                          THEN Head(rest) ELSE current)

getCurrentStepFirst(timeline, elapsedMinutes) ==
    CurrentFromFirst(timeline, elapsedMinutes, NoStep)

getCurrentStep(timeline, elapsedMinutes) ==
    CurrentFrom(timeline, elapsedMinutes, NoStep)

\* item.actions filtered by action.isCriticalPath, in the order of the block
CriticalActions(actions) ==
    LET Keep(action) == Truthy(action.isCriticalPath)
    IN SelectSeq(actions, Keep)

\* the loop of getCriticalPathSteps over the rest of the timeline; steps is
\* the array pushed to
RECURSIVE CriticalFrom(_, _)
CriticalFrom(rest, steps) ==
    IF rest = <<>> THEN steps
    ELSE LET item == Head(rest)
         IN CriticalFrom(Tail(rest),
                IF item.type = "action" /\ Truthy(item.isCriticalPath)
                THEN Append(steps, item)
                ELSE IF item.type = "parallel"
                THEN steps \o CriticalActions(item.actions)
                ELSE steps)

\* getCriticalPathSteps that looks at top-level items only
RECURSIVE CriticalFromTopLevel(_, _)
CriticalFromTopLevel(rest, steps) ==
    IF rest = <<>> THEN steps
    ELSE CriticalFromTopLevel(Tail(rest),
            IF Head(rest).type = "action" /\ Truthy(Head(rest).isCriticalPath)
            THEN Append(steps, Head(rest)) ELSE steps)

getCriticalPathStepsTopLevel(timeline) == Sort(CriticalFromTopLevel(timeline, <<>>))

\* the arrays getCriticalPathSteps leaves: the timeline is array 1, the local
\* array steps is array 2, and steps is the one sorted and returned
CriticalArrays(timeline) == ArraySort(<<timeline, CriticalFrom(timeline, <<>>)>>, 2)

getCriticalPathSteps(timeline) ==
    LET a == CriticalArrays(timeline)
    IN a.heap[a.ref]

\* no TimelineManager call made
NoCall ==
    [given |-> <<>>, timeline |-> <<>>, elapsedMinutes |-> 0, op |-> "none",
     steps |-> <<>>, step |-> NoStep]

\* a tab with no handler running, left handlers still to run
Tabs == {1, 2}
TabIdle(recipeSlug, left) ==
    [slug |-> recipeSlug, pc |-> "idle", data |-> NoItem, state |-> EmptyObject,
     left |-> left, stale |-> FALSE]

\* the page on its own: no second tab is followed, and no write by one
NoTabs == <<>>
NothingWritten == <<>>

\* none of the scripts has run
NoRun == <<>>

----------------------------------------------------------------------------
(* The page: module state after the script is evaluated *)

Init ==
    /\ now = T0
    /\ storage \in {NoItem, CorruptItem}
    /\ currentRecipeSlug = NullSlug
    /\ timerInterval = 0
    /\ intervals = {}
    /\ controls = TemplateControls
    /\ elapsedShown = -1
    /\ pauseMark = NoMark
    /\ lastOp = Op("load", FALSE)
    /\ tl = NoCall
    /\ cards = <<>>
    /\ tabs = NoTabs
    /\ written = NothingWritten
    /\ run = NoRun
    /\ script = TicketScript

\* the clock moves on; no handler runs
Advance ==
    /\ now + ClockStep <= MaxNow
    /\ now' = now + ClockStep
    /\ pauseMark' = KeepPaused
    /\ UNCHANGED <<storage, currentRecipeSlug, timerInterval, intervals, controls,
                   elapsedShown, cards, lastOp>>
    /\ UNCHANGED <<tl, tabs, written, run, script>>

\* initTimer that shows a running timer without starting its interval
initTimerFromNoInterval(recipeSlug, ti, set, ctl, shown) ==
    LET r == getState(storage, recipeSlug)
    IN IF r.k = "throw"
       THEN [threw |-> TRUE, timerInterval |-> ti, intervals |-> set,
             controls |-> ctl, shown |-> shown]
       ELSE IF r.k = "object" /\ Truthy(r.o.startTime)
       THEN [threw |-> FALSE, timerInterval |-> ti, intervals |-> set,
             controls |-> ShowControls(IF Truthy(r.o.isPaused) THEN ControlsPaused
                                       ELSE ControlsRunning),
             shown |-> updateTimerDisplay(recipeSlug, storage, now, shown).shown]
       ELSE [threw |-> FALSE, timerInterval |-> ti, intervals |-> set,
             controls |-> ctl, shown |-> shown]

\* initTimer's effect from the given module state:
\* [threw, timerInterval, intervals, controls, shown]
initTimerFrom(recipeSlug, ti, set, ctl, shown) ==
    LET r == getState(storage, recipeSlug)
        iv == StartInterval(ti, set)
    IN IF r.k = "throw"
       THEN [threw |-> TRUE, timerInterval |-> ti, intervals |-> set,
             controls |-> ctl, shown |-> shown]
       ELSE IF r.k = "object" /\ Truthy(r.o.startTime)
       THEN IF Truthy(r.o.isPaused)
            THEN [threw |-> FALSE, timerInterval |-> ti, intervals |-> set,
                  controls |-> ShowControls(ControlsPaused),
                  shown |-> updateTimerDisplay(recipeSlug, storage, now, shown).shown]
            ELSE [threw |-> FALSE, timerInterval |-> iv.timerInterval,
                  intervals |-> iv.intervals,
                  controls |-> ShowControls(ControlsRunning),
                  shown |-> updateTimerDisplay(recipeSlug, storage, now, shown).shown]
       ELSE [threw |-> FALSE, timerInterval |-> ti, intervals |-> set,
             controls |-> ctl, shown |-> shown]

\* the cards after initTimer ran on the cards cds
initTimerCards(recipeSlug, cds) ==
    LET r == getState(storage, recipeSlug)
    IN IF cds = <<>> THEN cds
       ELSE IF r.k = "object" /\ Truthy(r.o.startTime)
       THEN updateTimerDisplayCards(recipeSlug, storage, now, cds)
       ELSE cds

initTimer(recipeSlug) ==
    /\ UNCHANGED <<tl, tabs, written, run, script>>
    /\ LET x == initTimerFrom(recipeSlug, timerInterval, intervals, controls, elapsedShown)
       IN /\ currentRecipeSlug' = recipeSlug
          /\ timerInterval' = x.timerInterval
          /\ intervals' = x.intervals
          /\ controls' = x.controls
          /\ elapsedShown' = x.shown
          /\ cards' = initTimerCards(recipeSlug, cards)
          /\ lastOp' = IF x.threw THEN Op("init", TRUE)
                     ELSE IF Started(storage, recipeSlug) THEN Op("init", FALSE) ELSE Idle
          /\ pauseMark' = KeepPaused
          /\ UNCHANGED <<now, storage>>

\* the page is loaded again: the script's variables start over, the intervals
\* of the old page are gone, the DOM is as rendered, and initTimer runs
Reload(recipeSlug) ==
    /\ UNCHANGED <<tl, tabs, written, run, script>>
    /\ LET x == initTimerFrom(recipeSlug, 0, {}, TemplateControls, -1)
       IN /\ currentRecipeSlug' = recipeSlug
          /\ timerInterval' = x.timerInterval
          /\ intervals' = x.intervals
          /\ controls' = x.controls
          /\ elapsedShown' = x.shown
          /\ cards' = initTimerCards(recipeSlug, RenderedCards(cards))
          /\ lastOp' = Op("reload", x.threw)
          /\ pauseMark' = KeepPaused
          /\ UNCHANGED <<now, storage>>

\* parseInt of the active covers button's value, 4 when there is none (0)
getSelectedServingSize(active) == IF active = 0 THEN DefaultServing ELSE active

startTimer(active) ==
    /\ UNCHANGED <<tl, tabs, written, run, script>>
    /\ LET state == [startTime |-> Num(now),
                     servingSize |-> Num(getSelectedServingSize(active)),
                     currentStepId |-> Null,
                     isPaused |-> Bool(FALSE),
                     pausedAt |-> Null]
           w == setState(storage, currentRecipeSlug, state)
           iv == StartInterval(timerInterval, intervals)
       IN IF currentRecipeSlug = NullSlug
          THEN /\ lastOp' = Idle
               /\ pauseMark' = KeepPaused
               /\ UNCHANGED <<now, storage, currentRecipeSlug, timerInterval, intervals,
                              controls, elapsedShown, cards>>
          ELSE IF w.threw
          THEN /\ lastOp' = Op("start", TRUE)
               /\ pauseMark' = KeepPaused
               /\ UNCHANGED <<now, storage, currentRecipeSlug, timerInterval, intervals,
                              controls, elapsedShown, cards>>
          ELSE /\ storage' = w.storage
               /\ controls' = ShowControls(ControlsRunning)
               /\ timerInterval' = iv.timerInterval
               /\ intervals' = iv.intervals
               /\ elapsedShown' =
                    updateTimerDisplay(currentRecipeSlug, w.storage, now, elapsedShown).shown
               /\ cards' = updateTimerDisplayCards(currentRecipeSlug, w.storage, now, cards)
               /\ lastOp' = Op("start", FALSE)
               /\ pauseMark' = NoMark
               /\ UNCHANGED <<now, currentRecipeSlug>>

\* PausedState without the pausedAt stamp
PausedStateNoStamp(state, t) ==
    [state EXCEPT !.isPaused = Bool(TRUE)]

\* the state object pauseTimer writes
PausedState(state, t) ==
    [state EXCEPT !.isPaused = Bool(TRUE), !.pausedAt = Num(t)]

pauseTimer ==
    /\ UNCHANGED <<tl, tabs, written, run, script>>
    /\ LET r == getState(storage, currentRecipeSlug)
           w == setState(storage, currentRecipeSlug, PausedState(r.o, now))
           iv == StopInterval(timerInterval, intervals)
       IN IF currentRecipeSlug = NullSlug \/ r.k # "object"
          THEN /\ lastOp' = IF currentRecipeSlug # NullSlug /\ r.k = "throw"
                          THEN Op("pause", TRUE) ELSE Idle
               /\ pauseMark' = KeepPaused
               /\ UNCHANGED <<now, storage, currentRecipeSlug, timerInterval, intervals,
                              controls, elapsedShown, cards>>
          ELSE /\ storage' = w.storage
               /\ timerInterval' = iv.timerInterval
               /\ intervals' = iv.intervals
               /\ controls' = ShowControls(ControlsPaused)
               /\ lastOp' = Op("pause", FALSE)
               /\ pauseMark' =
                    IF Running(storage, currentRecipeSlug)
                    THEN [phase |-> "paused", slug |-> currentRecipeSlug,
                          ms |-> getElapsedMs(storage, currentRecipeSlug, now).val.v,
                          at |-> now]
                    ELSE NoMark
               /\ UNCHANGED <<now, currentRecipeSlug, elapsedShown, cards>>

\* ResumedState without the shift of startTime
ResumedStateNoShift(state, t) ==
    [state EXCEPT !.isPaused = Bool(FALSE), !.pausedAt = Null]

\* ResumedState that leaves pausedAt as it was
ResumedStateKeepStamp(state, t) ==
    LET pauseDuration == Sub(Num(t), state.pausedAt)
    IN [state EXCEPT !.startTime = Add(state.startTime, pauseDuration),
                     !.isPaused = Bool(FALSE)]

\* ResumedState that counts from the resume: startTime becomes now
ResumedStateRestart(state, t) ==
    [state EXCEPT !.startTime = Num(t), !.isPaused = Bool(FALSE), !.pausedAt = Null]

\* the state object resumeTimer writes
ResumedState(state, t) ==
    LET pauseDuration == Sub(Num(t), state.pausedAt)
    IN [state EXCEPT !.startTime = Add(state.startTime, pauseDuration),
                     !.isPaused = Bool(FALSE),
                     !.pausedAt = Null]

resumeTimer ==
    /\ UNCHANGED <<tl, tabs, written, run, script>>
    /\ LET r == getState(storage, currentRecipeSlug)
           w == setState(storage, currentRecipeSlug, ResumedState(r.o, now))
           iv == StartInterval(timerInterval, intervals)
       IN IF currentRecipeSlug = NullSlug \/ r.k # "object" \/ ~Truthy(r.o.isPaused)
          THEN /\ lastOp' = IF currentRecipeSlug # NullSlug /\ r.k = "throw"
                          THEN Op("resume", TRUE) ELSE Idle
               /\ pauseMark' = KeepPaused
               /\ UNCHANGED <<now, storage, currentRecipeSlug, timerInterval, intervals,
                              controls, elapsedShown, cards>>
          ELSE /\ storage' = w.storage
               /\ controls' = ShowControls(ControlsRunning)
               /\ timerInterval' = iv.timerInterval
               /\ intervals' = iv.intervals
               /\ elapsedShown' =
                    updateTimerDisplay(currentRecipeSlug, w.storage, now, elapsedShown).shown
               /\ cards' = updateTimerDisplayCards(currentRecipeSlug, w.storage, now, cards)
               /\ lastOp' = Op("resume", FALSE)
               /\ pauseMark' =
                    IF pauseMark.phase = "paused" /\ pauseMark.slug = currentRecipeSlug
                    THEN [pauseMark EXCEPT !.phase = "resumed"]
                    ELSE NoMark
               /\ UNCHANGED <<now, currentRecipeSlug>>

\* ok: the answer to confirm()
resetTimer(ok) ==
    /\ UNCHANGED <<tl, tabs, written, run, script>>
    /\ LET c == clearState(storage, currentRecipeSlug)
           iv == StopInterval(timerInterval, intervals)
       IN IF currentRecipeSlug = NullSlug \/ ~ok
          THEN /\ lastOp' = Idle
               /\ pauseMark' = KeepPaused
               /\ UNCHANGED <<now, storage, currentRecipeSlug, timerInterval, intervals,
                              controls, elapsedShown, cards>>
          ELSE IF c.threw
          THEN /\ lastOp' = Op("reset", TRUE)
               /\ pauseMark' = KeepPaused
               /\ UNCHANGED <<now, storage, currentRecipeSlug, timerInterval, intervals,
                              controls, elapsedShown, cards>>
          ELSE /\ storage' = c.storage
               /\ timerInterval' = iv.timerInterval
               /\ intervals' = iv.intervals
               /\ controls' = ShowControls(ControlsStopped)
               /\ cards' = resetStepDisplays(cards)
               /\ lastOp' = Op("reset", FALSE)
               /\ pauseMark' = NoMark
               /\ UNCHANGED <<now, currentRecipeSlug, elapsedShown>>

\* the interval's callback fires
Tick ==
    /\ intervals # {}
    /\ UNCHANGED <<now, storage, currentRecipeSlug, timerInterval, intervals, controls>>
    /\ UNCHANGED <<tl, tabs, written, run, script>>
    /\ pauseMark' = KeepPaused
    /\ LET d == updateTimerDisplay(currentRecipeSlug, storage, now, elapsedShown)
       IN /\ elapsedShown' = d.shown
          /\ lastOp' = IF d.threw THEN Op("tick", TRUE) ELSE Idle
          /\ cards' = updateTimerDisplayCards(currentRecipeSlug, storage, now, cards)

\* the visibilitychange listener; visibilityState is the document's at the event
visibilitychange(visibilityState) ==
    /\ UNCHANGED <<now, storage, currentRecipeSlug, timerInterval, intervals, controls>>
    /\ UNCHANGED <<tl, tabs, written, run, script>>
    /\ pauseMark' = KeepPaused
    /\ LET r == getState(storage, currentRecipeSlug)
           d == updateTimerDisplay(currentRecipeSlug, storage, now, elapsedShown)
       IN IF visibilityState = "visible" /\ currentRecipeSlug # NullSlug
          THEN IF r.k = "throw"
               THEN /\ lastOp' = Op("visibility", TRUE)
                    /\ UNCHANGED <<elapsedShown, cards>>
               ELSE IF r.k = "object" /\ Truthy(r.o.startTime)
               THEN /\ elapsedShown' = d.shown
                    /\ lastOp' = IF d.threw THEN Op("visibility", TRUE) ELSE Idle
                    /\ cards' = updateTimerDisplayCards(currentRecipeSlug, storage,
                                                        now, cards)
               ELSE /\ lastOp' = Idle
                    /\ UNCHANGED <<elapsedShown, cards>>
          ELSE /\ lastOp' = Idle
               /\ UNCHANGED <<elapsedShown, cards>>

\* a new object that holds the serving size and nothing else
WithServingSizeOnly(state, size) == [EmptyObject EXCEPT !.servingSize = Num(size)]

\* state.servingSize = size
WithServingSize(state, size) == [state EXCEPT !.servingSize = Num(size)]

\* recipe-data.js; size is parseInt(newSize)
updateServingSize(size) ==
    /\ UNCHANGED <<tl, tabs, written, run, script>>
    /\ LET r == getState(storage, currentRecipeSlug)
           state == IF r.k = "object" THEN r.o ELSE EmptyObject   \* getState(...) || {}
           w == setState(storage, currentRecipeSlug, WithServingSize(state, size))
       IN /\ IF currentRecipeSlug = NullSlug
             THEN /\ lastOp' = Idle
                  /\ pauseMark' = KeepPaused
                  /\ UNCHANGED storage
             ELSE IF r.k = "throw"
             THEN /\ lastOp' = Op("serving", TRUE)
                  /\ pauseMark' = KeepPaused
                  /\ UNCHANGED storage
             ELSE /\ storage' = w.storage
                  /\ lastOp' = Op("serving", w.threw)
                  /\ pauseMark' = NoMark
          /\ UNCHANGED <<now, currentRecipeSlug, timerInterval, intervals, controls,
                         elapsedShown, cards>>

Next ==
    \/ Advance
    \/ \E s \in Slugs : initTimer(s)
    \/ \E s \in Slugs : Reload(s)
    \/ \E active \in Servings \cup {0} : startTimer(active)
    \/ pauseTimer
    \/ resumeTimer
    \/ \E ok \in BOOLEAN : resetTimer(ok)
    \/ Tick
    \/ \E v \in {"visible", "hidden"} : visibilitychange(v)
    \/ \E size \in Servings : updateServingSize(size)

Spec == Init /\ [][Next]_vars

----------------------------------------------------------------------------
(* The store's own interface, called directly: set and clear *)

ClockValues == {T0 + i * ClockStep : i \in 0..MaxAdvances}

\* the TimerState values of the data model: all five fields present
TimerStates ==
    [startTime : {Num(T0), Num(T0 + ClockStep)},
     servingSize : {Num(n) : n \in Servings},
     currentStepId : {Null, Str(1)},
     isPaused : {Bool(TRUE), Bool(FALSE)},
     pausedAt : {Null, Num(T0 + ClockStep)}]

StoreSet(recipeSlug, state) ==
    /\ UNCHANGED <<tl, tabs, written, run, script>>
    /\ LET w == setState(storage, recipeSlug, state)
       IN /\ storage' = w.storage
          /\ lastOp' = OpOn("set", w.threw, recipeSlug, state)
          /\ UNCHANGED <<now, currentRecipeSlug, timerInterval, intervals, controls,
                         elapsedShown, cards, pauseMark>>

StoreClear(recipeSlug) ==
    /\ UNCHANGED <<tl, tabs, written, run, script>>
    /\ LET c == clearState(storage, recipeSlug)
       IN /\ storage' = c.storage
          /\ lastOp' = OpOn("clear", c.threw, recipeSlug, Null)
          /\ UNCHANGED <<now, currentRecipeSlug, timerInterval, intervals, controls,
                         elapsedShown, cards, pauseMark>>

StoreNext ==
    \/ \E s \in Slugs, state \in TimerStates : StoreSet(s, state)
    \/ \E s \in Slugs : StoreClear(s)

SpecStore == Init /\ [][StoreNext]_vars

----------------------------------------------------------------------------
(* TimelineManager called on every timeline and elapsed value within the bounds *)

StartMinutes == 0..MaxMinute
Durations == {Undefined, Num(1), Num(MaxMinute)}
ElapsedMinutes == 0..(MaxMinute + 1)

\* the items a timeline is made of, before their ids are given: actions, and
\* parallel blocks holding one action
Shapes ==
    {Action(0, m, d) : m \in StartMinutes, d \in Durations}
    \cup {ParallelBlock(0, m, <<Action(0, m, Num(1))>>) : m \in StartMinutes \ {0}}

\* ids: the position for a top-level item, beyond MaxLen for a nested action
\* (a block holds MaxLen actions at most)
WithIds(shapes) ==
    [i \in DOMAIN shapes |->
        [shapes[i] EXCEPT
            !.id = i,
            !.actions = [k \in DOMAIN @ |->
                            [@[k] EXCEPT !.id = MaxLen + MaxLen * (i - 1) + k]]]]

\* timelines in any order, sorted or not
Timelines == {WithIds(t) : t \in UNION {[1..n -> Shapes] : n \in 0..MaxLen}}

\* an action without duration that is or is not on the critical path
Marked(m, critical) == [Action(0, m, Undefined) EXCEPT !.isCriticalPath = Bool(critical)]

\* the items of the timelines given to getCriticalPathSteps: actions, and
\* parallel blocks holding two actions, each starting at the first or the last
\* minute
CriticalShapes ==
    {Marked(m, c) : m \in {0, MaxMinute}, c \in BOOLEAN}
    \cup {ParallelBlock(0, m1, <<Marked(m1, c1), Marked(m2, c2)>>) :
            m1 \in {0, MaxMinute}, m2 \in {0, MaxMinute}, c1 \in BOOLEAN, c2 \in BOOLEAN}

CriticalTimelines ==
    {WithIds(t) : t \in UNION {[1..n -> CriticalShapes] : n \in 0..MaxLen}}

InitTimeline ==
    /\ now = T0
    /\ storage = NoItem
    /\ currentRecipeSlug = NullSlug
    /\ timerInterval = 0
    /\ intervals = {}
    /\ controls = TemplateControls
    /\ elapsedShown = -1
    /\ pauseMark = NoMark
    /\ lastOp = Op("load", FALSE)
    /\ cards = <<>>
    /\ tabs = NoTabs
    /\ written = NothingWritten
    /\ run = NoRun
    /\ script = TicketScript
    /\ \/ \E timeline \in Timelines, elapsedMinutes \in ElapsedMinutes :
            tl = [NoCall EXCEPT !.given = timeline, !.timeline = timeline,
                                !.elapsedMinutes = elapsedMinutes]
       \/ \E timeline \in CriticalTimelines :
            tl = [NoCall EXCEPT !.given = timeline, !.timeline = timeline]

CallUpcomingSteps ==
    /\ tl' = [tl EXCEPT !.timeline = UpcomingArrays(@, tl.elapsedMinutes).heap[1],
                        !.op = "getUpcomingSteps",
                        !.steps = getUpcomingSteps(tl.timeline, tl.elapsedMinutes),
                        !.step = NoStep]
    /\ UNCHANGED <<now, storage, currentRecipeSlug, timerInterval, intervals, controls,
                   elapsedShown, cards, pauseMark, lastOp, tabs, written,
                   run, script>>

CallNextStep ==
    /\ tl' = [tl EXCEPT !.timeline = UpcomingArrays(@, tl.elapsedMinutes).heap[1],
                        !.op = "getNextStep",
                        !.steps = <<>>,
                        !.step = getNextStep(tl.timeline, tl.elapsedMinutes)]
    /\ UNCHANGED <<now, storage, currentRecipeSlug, timerInterval, intervals, controls,
                   elapsedShown, cards, pauseMark, lastOp, tabs, written,
                   run, script>>

CallCurrentStep ==
    /\ tl' = [tl EXCEPT !.op = "getCurrentStep",
                        !.steps = <<>>,
                        !.step = getCurrentStep(tl.timeline, tl.elapsedMinutes)]
    /\ UNCHANGED <<now, storage, currentRecipeSlug, timerInterval, intervals, controls,
                   elapsedShown, cards, pauseMark, lastOp, tabs, written,
                   run, script>>

CallCriticalPathSteps ==
    /\ tl' = [tl EXCEPT !.timeline = CriticalArrays(@).heap[1],
                        !.op = "getCriticalPathSteps",
                        !.steps = getCriticalPathSteps(tl.timeline),
                        !.step = NoStep]
    /\ UNCHANGED <<now, storage, currentRecipeSlug, timerInterval, intervals, controls,
                   elapsedShown, cards, pauseMark, lastOp, tabs, written,
                   run, script>>

TimelineNext ==
    \/ CallUpcomingSteps
    \/ CallNextStep
    \/ CallCurrentStep
    \/ CallCriticalPathSteps

SpecTimeline == InitTimeline /\ [][TimelineNext]_vars

----------------------------------------------------------------------------
(* A recipe page with step cards, its timer started at T0 *)

\* the pages: up to MaxLen cards in any order, starting at minute 0, 1 or
\* MaxMinute, with or without a duration
CardPages ==
    UNION {[1..n -> {RenderedCard(m, d) : m \in {0, 1, MaxMinute},
                                          d \in {Undefined, Num(1)}}] :
             n \in 0..MaxLen}

\* the state written by startTimer at T0 with no covers button active
StartedAtT0 ==
    [startTime |-> Num(T0), servingSize |-> Num(DefaultServing),
     currentStepId |-> Null, isPaused |-> Bool(FALSE), pausedAt |-> Null]

\* the page, driven by one copy of timer.js, was loaded for recipe "a" with an
\* empty store and start was pressed
InitCardsOn(copy) ==
    /\ script = copy
    /\ now = T0
    /\ storage = setState(NoItem, "a", StartedAtT0).storage
    /\ currentRecipeSlug = "a"
    /\ timerInterval = 1
    /\ intervals = {1}
    /\ controls = ShowControls(ControlsRunning)
    /\ elapsedShown = 0
    /\ pauseMark = NoMark
    /\ lastOp = Op("start", FALSE)
    /\ tl = NoCall
    /\ \E page \in CardPages : cards = updateStepCountdowns(RenderedCards(page), 0)
    /\ tabs = NoTabs
    /\ written = NothingWritten
    /\ run = NoRun

\* the page of .step-ticket cards
InitCards == InitCardsOn(TicketScript)

\* The clock's step on the page with cards: a third of a minute, twenty of the
\* interval's periods of 1000 ms. Whole minutes lie on it, and instants at
\* which elapsedMs / 60000 is no binary fraction (at 100 s a card starting at
\* minute 2 has 20 s left and its countdown reads 19 s).
ThirdMinute == MsPerMinute \div 3

\* the clock moves on a third of a minute; no handler runs
AdvanceThird ==
    /\ now + ThirdMinute <= T0 + MaxMinute * MsPerMinute + ThirdMinute
    /\ now' = now + ThirdMinute
    /\ UNCHANGED <<storage, currentRecipeSlug, timerInterval, intervals, controls,
                   elapsedShown, cards, pauseMark, lastOp, tl, tabs,
                   written, run, script>>

CardsNext ==
    \/ AdvanceThird
    \/ Tick
    \/ \E v \in {"visible", "hidden"} : visibilitychange(v)

SpecCards == InitCards /\ [][CardsNext]_vars

\* the page of .step-card cards
SpecStepCardPage == InitCardsOn(CardScript) /\ [][CardsNext]_vars

----------------------------------------------------------------------------
(* Two tabs on the one localStorage entry. Each tab runs its handlers one   *)
(* localStorage call at a time; between two calls of one tab the other tab  *)
(* may run. Only the store is followed: each tab's controls and interval    *)
(* are its own.                                                             *)

MaxTabOps == 1      \* handlers each tab runs

\* stores the program leaves: per recipe no entry, a running or a paused state
TabStores ==
    {NoItem} \cup
    {JsonItem(StringifyMap(m)) :
        m \in UNION {[S -> {StartedAtT0, PausedState(StartedAtT0, T0)}] :
                       S \in SUBSET Slugs}}

InitTabs ==
    /\ now = T0
    /\ storage \in TabStores
    /\ currentRecipeSlug = NullSlug
    /\ timerInterval = 0
    /\ intervals = {}
    /\ controls = TemplateControls
    /\ elapsedShown = -1
    /\ pauseMark = NoMark
    /\ lastOp = Op("load", FALSE)
    /\ tl = NoCall
    /\ cards = <<>>
    /\ \E slugs \in [Tabs -> Slugs] : tabs = [t \in Tabs |-> TabIdle(slugs[t], MaxTabOps)]
    /\ written = [s \in Slugs |-> [by |-> 0, entry |-> getState(storage, s)]]
    /\ run = NoRun
    /\ script = TicketScript

TabUnchanged ==
    UNCHANGED <<currentRecipeSlug, timerInterval, intervals, controls, elapsedShown,
                pauseMark, lastOp, tl, cards, run, script>>

\* the handler of tab t returns
Return(t) == [tabs EXCEPT ![t] = TabIdle(@.slug, @.left - 1)]

\* startTimer up to the getItem of setState
TabStart(t) ==
    /\ tabs[t].pc = "idle" /\ tabs[t].left > 0
    /\ tabs' = [tabs EXCEPT ![t].pc = "setItem",
                            ![t].data = storage,
                            ![t].state = [startTime |-> Num(now),
                                          servingSize |-> Num(getSelectedServingSize(0)),
                                          currentStepId |-> Null,
                                          isPaused |-> Bool(FALSE),
                                          pausedAt |-> Null]]
    /\ UNCHANGED <<now, storage, written>>
    /\ TabUnchanged

\* pauseTimer: getState
TabPauseRead(t) ==
    /\ tabs[t].pc = "idle" /\ tabs[t].left > 0
    /\ LET r == getState(storage, tabs[t].slug)
       IN tabs' = IF r.k # "object" THEN Return(t)
                  ELSE [tabs EXCEPT ![t].pc = "pause", ![t].state = r.o]
    /\ UNCHANGED <<now, storage, written>>
    /\ TabUnchanged

\* pauseTimer: the two assignments and the getItem of setState
TabPauseStamp(t) ==
    /\ tabs[t].pc = "pause"
    /\ tabs' = [tabs EXCEPT ![t].pc = "setItem",
                            ![t].data = storage,
                            ![t].state = PausedState(@, now)]
    /\ UNCHANGED <<now, storage, written>>
    /\ TabUnchanged

\* resumeTimer: getState
TabResumeRead(t) ==
    /\ tabs[t].pc = "idle" /\ tabs[t].left > 0
    /\ LET r == getState(storage, tabs[t].slug)
       IN tabs' = IF r.k # "object" \/ ~Truthy(r.o.isPaused) THEN Return(t)
                  ELSE [tabs EXCEPT ![t].pc = "resume", ![t].state = r.o]
    /\ UNCHANGED <<now, storage, written>>
    /\ TabUnchanged

\* resumeTimer: the assignments and the getItem of setState
TabResumeStamp(t) ==
    /\ tabs[t].pc = "resume"
    /\ tabs' = [tabs EXCEPT ![t].pc = "setItem",
                            ![t].data = storage,
                            ![t].state = ResumedState(@, now)]
    /\ UNCHANGED <<now, storage, written>>
    /\ TabUnchanged

\* the setItem of setState: the text read by its getItem with the entry assigned
TabSetItem(t) ==
    /\ tabs[t].pc = "setItem"
    /\ storage' = setState(tabs[t].data, tabs[t].slug, tabs[t].state).storage
    /\ written' = [written EXCEPT ![tabs[t].slug] =
                      [by |-> t, entry |-> ResObject(tabs[t].state)]]
    /\ tabs' = [Return(t) EXCEPT ![t].stale = tabs[t].data # storage]
    /\ UNCHANGED now
    /\ TabUnchanged

\* a confirmed resetTimer: the getItem of clearState
TabResetRead(t) ==
    /\ tabs[t].pc = "idle" /\ tabs[t].left > 0
    /\ tabs' = IF storage.kind = "none" THEN Return(t)
               ELSE [tabs EXCEPT ![t].pc = "clear", ![t].data = storage]
    /\ UNCHANGED <<now, storage, written>>
    /\ TabUnchanged

\* the setItem of clearState
TabClearItem(t) ==
    /\ tabs[t].pc = "clear"
    /\ storage' = clearState(tabs[t].data, tabs[t].slug).storage
    /\ written' = [written EXCEPT ![tabs[t].slug] = [by |-> t, entry |-> ResNull]]
    /\ tabs' = [Return(t) EXCEPT ![t].stale = tabs[t].data # storage]
    /\ UNCHANGED now
    /\ TabUnchanged

TabsNext ==
    \/ Advance
    \/ \E t \in Tabs : TabStart(t)
    \/ \E t \in Tabs : TabPauseRead(t)
    \/ \E t \in Tabs : TabPauseStamp(t)
    \/ \E t \in Tabs : TabResumeRead(t)
    \/ \E t \in Tabs : TabResumeStamp(t)
    \/ \E t \in Tabs : TabSetItem(t)
    \/ \E t \in Tabs : TabResetRead(t)
    \/ \E t \in Tabs : TabClearItem(t)

SpecTabs == InitTabs /\ [][TabsNext]_vars

----------------------------------------------------------------------------
(* A cooking session on a recipe page with step cards: the page is loaded   *)
(* for recipe "a" with nothing stored, and the cook starts, pauses, resumes *)
(* and resets the timer and loads the page again, while the clock moves on  *)
(* in whole minutes.                                                        *)

MaxCards == 2       \* step cards on the page of a session

\* minutes the clock of a session runs: past the end of the last card, wherever
\* within the first minute the timer was started
SessionMinutes == MaxMinute + 3

\* the pages of a session: up to MaxCards cards in any order, starting at minute
\* 0 or MaxMinute, with or without a duration
SessionPages ==
    UNION {[1..n -> {RenderedCard(m, d) : m \in {0, MaxMinute},
                                          d \in {Undefined, Num(1)}}] :
             n \in 0..MaxCards}

\* initTimer("a") has run on the page as rendered, driven by one copy of
\* timer.js, with an empty store
InitSessionOn(copy) ==
    /\ script = copy
    /\ now = T0
    /\ storage = NoItem
    /\ currentRecipeSlug = "a"
    /\ timerInterval = 0
    /\ intervals = {}
    /\ controls = TemplateControls
    /\ elapsedShown = -1
    /\ pauseMark = NoMark
    /\ lastOp = Idle
    /\ tl = NoCall
    /\ \E page \in SessionPages : cards = RenderedCards(page)
    /\ tabs = NoTabs
    /\ written = NothingWritten
    /\ run = NoRun

\* a session on the page of .step-ticket cards
InitSession == InitSessionOn(TicketScript)

\* the clock moves on a minute; no handler runs
AdvanceMinute ==
    /\ now + MsPerMinute <= T0 + SessionMinutes * MsPerMinute
    /\ now' = now + MsPerMinute
    /\ UNCHANGED <<storage, currentRecipeSlug, timerInterval, intervals, controls,
                   elapsedShown, cards, pauseMark, lastOp, tl, tabs,
                   written, run, script>>

SessionNext ==
    \/ AdvanceMinute
    \/ startTimer(0)
    \/ pauseTimer
    \/ resumeTimer
    \/ \E ok \in BOOLEAN : resetTimer(ok)
    \/ Tick
    \/ \E v \in {"visible", "hidden"} : visibilitychange(v)
    \/ Reload("a")

SpecSession == InitSession /\ [][SessionNext]_vars

\* a session on the page of .step-card cards
SpecStepCardSession == InitSessionOn(CardScript) /\ [][SessionNext]_vars

\* time passes
SpecSessionFair == SpecSession /\ WF_vars(AdvanceMinute)

----------------------------------------------------------------------------
(* Process generation (scripts/generate-process.js, scripts/image-to-recipe.js): *)
(* a recipe's steps are laid out one after the other on a timeline              *)

\* a step of a recipe: durationMinutes is optional, image as well
Step(id, durationMinutes, image) ==
    [id |-> id, durationMinutes |-> durationMinutes, image |-> image]

\* no process made yet
NoProcess ==
    [recipeSlug |-> NullSlug, totalDurationMinutes |-> 0, timeline |-> <<>>,
     finishCriteria |-> "none"]

\* the action pushed for a step that starts at currentMinute
StepAction(step, currentMinute) ==
    [Action(step.id, currentMinute, Num(OrZero(step.durationMinutes)))
        EXCEPT !.isCriticalPath = Bool(TRUE)]

\* the loop over recipe.steps from step i on: [currentMinute, timeline]
RECURSIVE TimelineFrom(_, _, _, _)
TimelineFrom(steps, i, currentMinute, timeline) ==
    IF i > Len(steps) THEN [currentMinute |-> currentMinute, timeline |-> timeline]
    ELSE TimelineFrom(steps, i + 1,
                      currentMinute + OrZero(steps[i].durationMinutes),
                      Append(timeline, StepAction(steps[i], currentMinute)))

\* the loop with every step starting where it ends
RECURSIVE TimelineFromEnds(_, _, _, _)
TimelineFromEnds(steps, i, currentMinute, timeline) ==
    IF i > Len(steps) THEN [currentMinute |-> currentMinute, timeline |-> timeline]
    ELSE TimelineFromEnds(steps, i + 1,
                          currentMinute + OrZero(steps[i].durationMinutes),
                          Append(timeline,
                                 StepAction(steps[i],
                                            currentMinute
                                              + OrZero(steps[i].durationMinutes))))

\* the loop with currentMinute left at 0: every step starts at minute 0
RECURSIVE TimelineAllAtZero(_, _, _)
TimelineAllAtZero(steps, i, timeline) ==
    IF i > Len(steps) THEN timeline
    ELSE TimelineAllAtZero(steps, i + 1, Append(timeline, StepAction(steps[i], 0)))

\* image: step.image on every action of a timeline
WithImages(steps, timeline) ==
    [i \in DOMAIN timeline |->
        [id |-> timeline[i].id, type |-> timeline[i].type,
         startMinute |-> timeline[i].startMinute,
         durationMinutes |-> timeline[i].durationMinutes,
         isCriticalPath |-> timeline[i].isCriticalPath,
         actions |-> timeline[i].actions,
         image |-> steps[i].image]]

\* generateProcess with every step starting where it ends
generateProcessEnds(recipeSlug, steps) ==
    LET made == TimelineFromEnds(steps, 1, 0, <<>>)
    IN [recipeSlug |-> recipeSlug, totalDurationMinutes |-> made.currentMinute,
        timeline |-> WithImages(steps, made.timeline),
        finishCriteria |-> "Recipe completed"]

\* generateProcess with every step starting at minute 0
generateProcessAllAtZero(recipeSlug, steps) ==
    [recipeSlug |-> recipeSlug,
     totalDurationMinutes |-> TimelineFrom(steps, 1, 0, <<>>).currentMinute,
     timeline |-> WithImages(steps, TimelineAllAtZero(steps, 1, <<>>)),
     finishCriteria |-> "Recipe completed"]

\* generate-process.js: the process made of the recipe found under recipeSlug
generateProcess(recipeSlug, steps) ==
    LET made == TimelineFrom(steps, 1, 0, <<>>)
    IN [recipeSlug |-> recipeSlug, totalDurationMinutes |-> made.currentMinute,
        timeline |-> WithImages(steps, made.timeline),
        finishCriteria |-> "Recipe completed"]

\* image-to-recipe.js: the process made of an extracted recipe
generateCookingProcess(recipeSlug, steps) ==
    LET made == TimelineFrom(steps, 1, 0, <<>>)
    IN [recipeSlug |-> recipeSlug, totalDurationMinutes |-> made.currentMinute,
        timeline |-> made.timeline,
        finishCriteria |-> "Recipe completed as described"]

\* the durations a step may carry: none, 0, whole minutes, and a negative one
StepDurations == {Undefined, Num(0), Num(1), Num(MaxMinute), Num(-1)}

\* the recipes: up to MaxLen steps, with ids in step order
RecipeSteps ==
    UNION {{[i \in 1..n |-> Step(i, d[i], Undefined)] : d \in [1..n -> StepDurations]} :
             n \in 0..MaxLen}

\* the elapsed minutes asked about: up to past the longest total
GenElapsed == 0..(MaxLen * MaxMinute + 1)

InitGenerate ==
    /\ now = T0
    /\ storage = NoItem
    /\ currentRecipeSlug = NullSlug
    /\ timerInterval = 0
    /\ intervals = {}
    /\ controls = TemplateControls
    /\ elapsedShown = -1
    /\ pauseMark = NoMark
    /\ lastOp = Op("load", FALSE)
    /\ tl = NoCall
    /\ cards = <<>>
    /\ tabs = NoTabs
    /\ script = TicketScript
    /\ written = NothingWritten
    /\ \E steps \in RecipeSteps :
          run = [steps |-> steps, process |-> NoProcess, cooking |-> NoProcess,
                 elapsedMinutes |-> 0, asked |-> FALSE, step |-> NoStep]

\* everything but the run of the scripts
RunUnchanged ==
    UNCHANGED <<now, storage, currentRecipeSlug, timerInterval, intervals, controls,
                elapsedShown, pauseMark, lastOp, tl, cards, tabs, written, script>>

\* bun generate-process.js a
RunGenerateProcess ==
    /\ run' = [run EXCEPT !.process = generateProcess("a", run.steps),
                          !.asked = FALSE, !.step = NoStep, !.elapsedMinutes = 0]
    /\ RunUnchanged

\* image-to-recipe.js on a recipe card with the same steps
RunGenerateCookingProcess ==
    /\ run' = [run EXCEPT !.cooking = generateCookingProcess("a", run.steps)]
    /\ RunUnchanged

\* TimelineManager.getCurrentStep on the generated timeline
CallCurrentStepGenerated ==
    /\ run.process # NoProcess
    /\ \E e \in GenElapsed :
          run' = [run EXCEPT !.elapsedMinutes = e, !.asked = TRUE,
                            !.step = getCurrentStep(run.process.timeline, e)]
    /\ RunUnchanged

GenerateNext ==
    \/ RunGenerateProcess
    \/ RunGenerateCookingProcess
    \/ CallCurrentStepGenerated

SpecGenerate == InitGenerate /\ [][GenerateNext]_vars

----------------------------------------------------------------------------
(* Validation (scripts/validate-recipes.js): recipes.json and processes.json *)
(* are checked entry by entry against their schemas                          *)

\* A data file. kind: "missing" (no such file), "unreadable" (it exists and
\* readFileSync throws), "unparseable" (JSON.parse throws), "null" (the text
\* parses to null), "value" (it parses to any other value). entries: for each
\* entry Object.entries gives of the parsed value, whether schema.safeParse
\* succeeds on it.
DataFile(kind, entries) == [kind |-> kind, entries |-> entries]

\* the data files: every kind, with up to MaxLen entries
DataFiles ==
    {DataFile(k, <<>>) : k \in {"missing", "unreadable", "unparseable", "null"}}
    \cup UNION {{DataFile("value", e) : e \in [1..n -> BOOLEAN]} : n \in 0..MaxLen}

\* fs.existsSync
existsSync(file) == file.kind # "missing"

\* the for loop of validateFile: errorCount after the entries from i on
RECURSIVE ErrorCountFrom(_, _, _)
ErrorCountFrom(entries, i, errorCount) ==
    IF i > Len(entries) THEN errorCount
    ELSE ErrorCountFrom(entries, i + 1,
                        IF entries[i] THEN errorCount ELSE errorCount + 1)

\* validateFile that looks at the first entry only
validateFileFirstOnly(file) ==
    IF file.kind # "value" THEN [threw |-> FALSE, val |-> FALSE]
    ELSE [threw |-> FALSE,
          val |-> (file.entries = <<>> \/ file.entries[1])]

\* validateFile: [threw, val]. readFileSync, JSON.parse and Object.entries(null)
\* throw inside the try, and the catch returns false
validateFile(file) ==
    IF file.kind # "value" THEN [threw |-> FALSE, val |-> FALSE]
    ELSE [threw |-> FALSE, val |-> ErrorCountFrom(file.entries, 1, 0) = 0]

\* main: [status, warnings]; status is the argument of process.exit
main(recipes, processes) ==
    LET first == IF existsSync(recipes) THEN validateFile(recipes).val ELSE TRUE
        second == IF existsSync(processes) THEN validateFile(processes).val ELSE TRUE
        allValid == first /\ second
    IN [status |-> IF allValid THEN 0 ELSE 1,
        warnings |-> (IF existsSync(recipes) THEN {} ELSE {"recipes.json"})
                     \cup (IF existsSync(processes) THEN {} ELSE {"processes.json"})]

\* nothing called yet
NotCalled == [threw |-> FALSE, val |-> FALSE]
NotExited == [status |-> -1, warnings |-> {}]

InitValidate ==
    /\ now = T0
    /\ storage = NoItem
    /\ currentRecipeSlug = NullSlug
    /\ timerInterval = 0
    /\ intervals = {}
    /\ controls = TemplateControls
    /\ elapsedShown = -1
    /\ pauseMark = NoMark
    /\ lastOp = Op("load", FALSE)
    /\ tl = NoCall
    /\ cards = <<>>
    /\ tabs = NoTabs
    /\ script = TicketScript
    /\ written = NothingWritten
    /\ \E recipes \in DataFiles, processes \in DataFiles :
          run = [recipes |-> recipes, processes |-> processes, op |-> "none",
                 file |-> DataFile("missing", <<>>), returned |-> NotCalled,
                 exit |-> NotExited]

\* validateFile called on one of the two files
CallValidateFile ==
    /\ \E file \in {run.recipes, run.processes} :
          run' = [run EXCEPT !.op = "validateFile", !.file = file,
                            !.returned = validateFile(file), !.exit = NotExited]
    /\ RunUnchanged

\* bun run validate
RunValidate ==
    /\ run' = [run EXCEPT !.op = "main", !.file = DataFile("missing", <<>>),
                          !.returned = NotCalled,
                          !.exit = main(run.recipes, run.processes)]
    /\ RunUnchanged

ValidateNext ==
    \/ CallValidateFile
    \/ RunValidate

SpecValidate == InitValidate /\ [][ValidateNext]_vars

----------------------------------------------------------------------------
(* Properties *)

Returned(n) == [threw |-> FALSE, val |-> Num(n)]
ElapsedOf(r) == getElapsedMs(storage, r, now)

\* C1: elapsedMs read just before a pause of a running timer equals elapsedMs
\* read just after the resume that follows it, whatever the pause lasted.
C1_PauseResumeInvariance ==
    pauseMark.phase = "resumed" => ElapsedOf(pauseMark.slug) = Returned(pauseMark.ms)

\* a timer that had run, was paused for a while, and has just been resumed
C1_Witness ==
    /\ pauseMark.phase = "resumed"
    /\ pauseMark.ms > 0
    /\ now > pauseMark.at
    /\ lastOp = Op("resume", FALSE)

\* C2: a second pause right after a pause (the clock may have moved on) leaves
\* the stored text as the first pause left it.
C2_PauseIdempotent ==
    [][(lastOp = Op("pause", FALSE) /\ pauseTimer) => storage' = storage]_vars

\* C3: get and elapsedMs do not throw; with nothing stored or unparseable text
\* stored, get gives null and elapsedMs gives 0.
C3_GetNeverThrows ==
    \A r \in Slugs :
        storage.kind \in {"none", "corrupt"} =>
            /\ getState(storage, r) = ResNull
            /\ ElapsedOf(r) = Returned(0)

\* C4: with unparseable text stored, no handler raises an error.
C4_NoHandlerRaises ==
    storage.kind = "corrupt" => ~lastOp.threw

\* C5: set(id, s) followed by get(id) gives back s, field by field, whatever
\* the store holds for the other recipes.
C5_RoundTrip ==
    (lastOp.op = "set" /\ ~lastOp.threw) =>
        getState(storage, lastOp.slug) = ResObject(lastOp.arg)

\* a state with null pausedAt and null currentStepId was set beside another
\* recipe's entry
C5_Witness ==
    /\ lastOp.op = "set"
    /\ ~lastOp.threw
    /\ lastOp.arg.pausedAt = Null
    /\ lastOp.arg.currentStepId = Null
    /\ \E r \in Slugs \ {lastOp.slug} : getState(storage, r).k = "object"

\* C6: set and clear on recipe r, and start, pause, resume and reset on the
\* current recipe, leave what get gives for every other recipe as it was. (set
\* is tried with every state of the data model whose currentStepId is null, as
\* it is in every state the timer writes.)
C6_Isolation ==
    /\ [](\A r \in Slugs : \A r2 \in Slugs \ {r} :
            LET kept == getState(storage, r2)
            IN /\ \A state \in {s \in TimerStates : s.currentStepId = Null} :
                    getState(setState(storage, r, state).storage, r2) = kept
               /\ getState(clearState(storage, r).storage, r2) = kept)
    /\ [][\A r2 \in Slugs \ {currentRecipeSlug'} :
            getState(storage', r2) = getState(storage, r2)]_vars

\* a reset has just removed the current recipe's entry; the other recipe's is there
C6_Witness ==
    /\ lastOp = Op("reset", FALSE)
    /\ getState(storage, currentRecipeSlug).k = "null"
    /\ \E r2 \in Slugs \ {currentRecipeSlug} : Started(storage, r2)

\* what the data model gives for elapsedMs; a startTime that is missing, null
\* or 0 counts as no startTime
ElapsedByCase(r, t) ==
    LET g == getState(storage, r)
    IN IF g.k # "object" \/ g.o.startTime \in {Undefined, Null, Num(0)} THEN 0
       ELSE IF g.o.isPaused = Bool(TRUE) THEN g.o.pausedAt.v - g.o.startTime.v
       ELSE t - g.o.startTime.v

\* C7: elapsedMs is 0 with no state or no startTime, pausedAt - startTime when
\* paused, now - startTime when running, for every stored state and clock value.
C7_ElapsedMs ==
    storage.kind # "corrupt" =>
        \A r \in Slugs, t \in ClockValues :
            getElapsedMs(storage, r, t) = Returned(ElapsedByCase(r, t))

\* one recipe runs and one is paused, both with time on the clock
C7_Witness ==
    \E r \in Slugs, r2 \in Slugs :
        /\ Running(storage, r) /\ ElapsedOf(r).val.v > 0
        /\ Paused(storage, r2) /\ ElapsedOf(r2).val.v > 0

\* C8: while a recipe stays paused, elapsedMs does not change when the clock
\* advances, a tick fires, the page becomes visible or is loaded again.
C8_FrozenWhilePaused ==
    [][\A r \in Slugs :
         ( /\ Paused(storage, r)
           /\ Paused(storage', r)
           /\ \/ Advance
              \/ Tick
              \/ \E v \in {"visible", "hidden"} : visibilitychange(v)
              \/ \E s \in Slugs : Reload(s)
              \/ \E s \in Slugs : initTimer(s) )
         => getElapsedMs(storage', r, now') = getElapsedMs(storage, r, now)]_vars

\* a recipe paused earlier than now, with elapsed time frozen, while a tick is live
C8_Witness ==
    \E r \in Slugs :
        /\ Paused(storage, r)
        /\ now > getState(storage, r).o.pausedAt.v
        /\ ElapsedOf(r).val.v > 0
        /\ intervals # {}

\* C9: in every stored state, pausedAt is set exactly when isPaused is true.
C9_PausedAtIffPaused ==
    \A r \in Slugs :
        LET g == getState(storage, r)
        IN g.k = "object" =>
            (g.o.pausedAt.t \notin {"null", "undefined"} <=> g.o.isPaused = Bool(TRUE))

\* a paused state whose serving size has just been changed
C9_Witness ==
    /\ lastOp = Op("serving", FALSE)
    /\ Paused(storage, currentRecipeSlug)
    /\ getState(storage, currentRecipeSlug).o.pausedAt.t = "number"

\* C10: pause with no started state, and resume when not paused, raise no error
\* and leave the store, the controls and the interval as they were.
C10_InvalidOrderNoOp ==
    [][( /\ storage.kind # "corrupt"
         /\ \/ pauseTimer /\ ~Started(storage, currentRecipeSlug)
            \/ resumeTimer /\ ~Paused(storage, currentRecipeSlug) )
       => /\ UNCHANGED <<storage, controls, timerInterval, intervals>>
          /\ ~lastOp'.threw]_vars

\* the control state of recipe r as the stored text gives it
Ctl(st, r) ==
    IF Paused(st, r) THEN "Paused"
    ELSE IF Running(st, r) THEN "Running"
    ELSE "Stopped"

\* C11: a recipe's control state changes only by start (Stopped to Running,
\* startTime = now), pause (Running to Paused, pausedAt = now), resume (Paused to
\* Running, startTime shifted by the pause, pausedAt cleared) and reset (to Stopped).
C11_OnlyListedTransitions ==
    [][storage.kind # "corrupt" =>
        \A r \in Slugs :
            LET before == Ctl(storage, r)
                after == Ctl(storage', r)
                old == getState(storage, r).o
                new == getState(storage', r).o
            IN before # after =>
                \/ /\ before = "Stopped" /\ after = "Running"
                   /\ \E active \in Servings \cup {0} : startTimer(active)
                   /\ new.startTime = Num(now)
                \/ /\ before = "Running" /\ after = "Paused"
                   /\ pauseTimer
                   /\ new.pausedAt = Num(now)
                \/ /\ before = "Paused" /\ after = "Running"
                   /\ resumeTimer
                   /\ new.startTime = Add(old.startTime, Sub(Num(now), old.pausedAt))
                   /\ new.pausedAt = Null
                \/ /\ after = "Stopped"
                   /\ resetTimer(TRUE)]_vars

\* C12: a confirmed reset leaves the current recipe with no stored state, elapsedMs 0
\* and control state Stopped, whatever state it was in; a declined reset leaves
\* the store, the controls, the interval and the display as they were.
C12_ResetClears ==
    [][(storage.kind # "corrupt" /\ currentRecipeSlug # NullSlug) =>
        /\ resetTimer(TRUE) =>
              /\ getState(storage', currentRecipeSlug) = ResNull
              /\ getElapsedMs(storage', currentRecipeSlug, now') = Returned(0)
              /\ Ctl(storage', currentRecipeSlug) = "Stopped"
              /\ ~lastOp'.threw
        /\ resetTimer(FALSE) =>
              UNCHANGED <<storage, currentRecipeSlug, controls, timerInterval,
                          intervals, elapsedShown, cards>>]_vars

\* a reset has just removed the entry of a recipe whose elapsed time was on display
C12_Witness ==
    /\ lastOp = Op("reset", FALSE)
    /\ getState(storage, currentRecipeSlug) = ResNull
    /\ elapsedShown >= 0
    /\ controls = ControlsStopped

\* C13: a recipe with no stored state gets one only by start: get stays absent for
\* a recipe never started or reset since, whatever else happens while Stopped.
C13_AbsentUnlessStarted ==
    [][\A r \in Slugs :
         (getState(storage, r) = ResNull /\ getState(storage', r) # ResNull)
         => \E active \in Servings \cup {0} : startTimer(active)]_vars

\* C14: a page reload for recipe s leaves the store, the control state and elapsedMs
\* of s as they were; a Running timer has its tick started again and the running
\* controls shown, a Paused one shows the paused controls with no tick, and a
\* Stopped recipe stays Stopped with no tick.
C14_SurvivesReload ==
    [][\A s \in Slugs :
         (storage.kind # "corrupt" /\ Reload(s)) =>
            /\ storage' = storage
            /\ Ctl(storage', s) = Ctl(storage, s)
            /\ getElapsedMs(storage', s, now') = getElapsedMs(storage, s, now)
            /\ getElapsedMs(storage', s, now') = Returned(ElapsedByCase(s, now))
            /\ ~lastOp'.threw
            /\ Ctl(storage, s) = "Running" =>
                  /\ timerInterval' # 0
                  /\ intervals' = {timerInterval'}
                  /\ controls' = ControlsRunning
                  /\ elapsedShown' = ElapsedByCase(s, now) \div MsPerSecond
            /\ Ctl(storage, s) = "Paused" =>
                  /\ timerInterval' = 0
                  /\ intervals' = {}
                  /\ controls' = ControlsPaused
                  /\ elapsedShown' = ElapsedByCase(s, now) \div MsPerSecond
            /\ Ctl(storage, s) = "Stopped" =>
                  /\ timerInterval' = 0
                  /\ intervals' = {}]_vars

\* the page was just loaded again on a running timer with time on the clock
C14_Witness ==
    /\ lastOp = Op("reload", FALSE)
    /\ Running(storage, currentRecipeSlug)
    /\ ElapsedOf(currentRecipeSlug).val.v > 0
    /\ intervals = {timerInterval}
    /\ \E r \in Slugs : Paused(storage, r)

\* the hidden flags of the four buttons
Buttons(c) == [b \in {"start", "pause", "resume", "reset"} |-> c[b]]

\* C15: the buttons shown match the stored state of the current recipe: start only
\* when Stopped, pause and reset when Running, resume and reset when Paused.
C15_ControlsMatchState ==
    (currentRecipeSlug # NullSlug /\ storage.kind # "corrupt") =>
        Buttons(controls) =
            CASE Ctl(storage, currentRecipeSlug) = "Running" -> Buttons(ControlsRunning)
              [] Ctl(storage, currentRecipeSlug) = "Paused" -> Buttons(ControlsPaused)
              [] OTHER -> Buttons(ControlsStopped)

----------------------------------------------------------------------------
(* Properties of the TimelineManager calls *)

\* positions of the top-level items that start after the elapsed minute
UpcomingPositions ==
    {i \in DOMAIN tl.timeline : tl.timeline[i].startMinute > tl.elapsedMinutes}

\* durationMinutes, 0 when missing
DurationOf(item) ==
    IF item.durationMinutes = Undefined THEN 0 ELSE item.durationMinutes.v

\* positions of the top-level actions whose window holds the elapsed minute
CurrentPositions ==
    {i \in DOMAIN tl.timeline :
        /\ tl.timeline[i].type = "action"
        /\ tl.timeline[i].startMinute <= tl.elapsedMinutes
        /\ tl.elapsedMinutes < tl.timeline[i].startMinute + DurationOf(tl.timeline[i])}

\* C16: for every timeline, sorted or not, and every elapsed value, upcomingSteps
\* is in ascending order of startMinute and every element starts after elapsed.
C16_UpcomingSortedAndLater ==
    tl.op = "getUpcomingSteps" =>
        /\ \A i \in 1..(Len(tl.steps) - 1) :
              tl.steps[i].startMinute <= tl.steps[i + 1].startMinute
        /\ \A i \in DOMAIN tl.steps : tl.steps[i].startMinute > tl.elapsedMinutes

\* an unsorted timeline with an item starting at the elapsed minute, two returned
C16_Witness ==
    /\ tl.op = "getUpcomingSteps"
    /\ Len(tl.steps) >= 2
    /\ \E i \in DOMAIN tl.timeline : tl.timeline[i].startMinute = tl.elapsedMinutes
    /\ \E i \in DOMAIN tl.timeline : \E j \in DOMAIN tl.timeline :
          /\ i < j
          /\ tl.timeline[i].startMinute > tl.timeline[j].startMinute
          /\ j \in UpcomingPositions

\* C17: upcomingSteps returns exactly the top-level items that start after
\* elapsed, each once and as it is in the timeline, never a nested action, and
\* items with the same startMinute keep their order in the timeline.
C17_UpcomingExactAndStable ==
    tl.op = "getUpcomingSteps" =>
        /\ \A i \in DOMAIN tl.steps :
              /\ tl.steps[i].id \in DOMAIN tl.timeline
              /\ tl.steps[i] = tl.timeline[tl.steps[i].id]
        /\ {tl.steps[i].id : i \in DOMAIN tl.steps} = UpcomingPositions
        /\ Len(tl.steps) = Cardinality(UpcomingPositions)
        /\ \A i \in DOMAIN tl.steps : \A j \in DOMAIN tl.steps :
              (i < j /\ tl.steps[i].startMinute = tl.steps[j].startMinute)
              => tl.steps[i].id < tl.steps[j].id

\* three returned: the last item of the timeline first, then a parallel block
\* and another item that start together
C17_Witness ==
    /\ tl.op = "getUpcomingSteps"
    /\ Len(tl.steps) = MaxLen
    /\ tl.steps[1].id = MaxLen
    /\ tl.steps[2].startMinute = tl.steps[3].startMinute
    /\ tl.steps[2].type = "parallel"
    /\ tl.steps[2].actions # <<>>

\* C18: nextStep is the first element of upcomingSteps: the top-level item with
\* the smallest startMinute after elapsed, the earliest in the timeline among
\* ties, and null exactly when no top-level item starts after elapsed.
C18_NextStep ==
    tl.op = "getNextStep" =>
        LET upcoming == getUpcomingSteps(tl.timeline, tl.elapsedMinutes)
        IN /\ tl.step = IF upcoming = <<>> THEN NoStep ELSE Head(upcoming)
           /\ tl.step = NoStep <=> UpcomingPositions = {}
           /\ UpcomingPositions # {} =>
                \E k \in UpcomingPositions :
                    /\ tl.step = tl.timeline[k]
                    /\ \A j \in UpcomingPositions :
                          \/ tl.timeline[k].startMinute < tl.timeline[j].startMinute
                          \/ /\ tl.timeline[k].startMinute = tl.timeline[j].startMinute
                             /\ k <= j

\* the next step is the second item; the first starts later and the third
\* starts with it
C18_Witness ==
    /\ tl.op = "getNextStep"
    /\ Len(tl.timeline) = 3
    /\ tl.step = tl.timeline[2]
    /\ tl.timeline[1].startMinute > tl.step.startMinute
    /\ tl.timeline[3].startMinute = tl.step.startMinute

\* C19: currentStep returns a top-level action whose window
\* [startMinute, startMinute + durationMinutes) holds elapsed, with a missing
\* durationMinutes counted as 0, and null exactly when there is none.
C19_CurrentStepInWindow ==
    tl.op = "getCurrentStep" =>
        /\ tl.step = NoStep <=> CurrentPositions = {}
        /\ tl.step # NoStep =>
              /\ tl.step.id \in CurrentPositions
              /\ tl.step = tl.timeline[tl.step.id]
              /\ tl.step.type = "action"
              /\ tl.step.startMinute <= tl.elapsedMinutes
              /\ tl.elapsedMinutes # tl.step.startMinute + DurationOf(tl.step)

\* the current step starts at the elapsed minute; another action ends at it, an
\* action without duration starts at it and a parallel block has started
C19_Witness ==
    /\ tl.op = "getCurrentStep"
    /\ tl.step # NoStep
    /\ tl.step.startMinute = tl.elapsedMinutes
    /\ \E i \in DOMAIN tl.timeline :
          /\ tl.timeline[i].type = "action"
          /\ DurationOf(tl.timeline[i]) > 0
          /\ tl.timeline[i].startMinute + DurationOf(tl.timeline[i]) = tl.elapsedMinutes
    /\ \E i \in DOMAIN tl.timeline :
          /\ tl.timeline[i].type = "parallel"
          /\ tl.timeline[i].startMinute <= tl.elapsedMinutes

\* C20: when the windows of several top-level actions hold elapsed, currentStep
\* returns the one that comes last in the timeline.
C20_LastWins ==
    (tl.op = "getCurrentStep" /\ Cardinality(CurrentPositions) >= 2) =>
        /\ tl.step.id \in CurrentPositions
        /\ \A i \in CurrentPositions : i <= tl.step.id

\* two windows hold elapsed and the one returned starts earlier than the other
C20_Witness ==
    /\ tl.op = "getCurrentStep"
    /\ Cardinality(CurrentPositions) >= 2
    /\ \E i \in CurrentPositions :
          /\ i < tl.step.id
          /\ tl.timeline[i].startMinute > tl.step.startMinute

\* every action of the timeline: the top-level ones and those inside the blocks
AllActions ==
    {tl.timeline[i] : i \in {j \in DOMAIN tl.timeline : tl.timeline[j].type = "action"}}
    \cup UNION {{tl.timeline[i].actions[k] : k \in DOMAIN tl.timeline[i].actions} :
                  i \in {j \in DOMAIN tl.timeline : tl.timeline[j].type = "parallel"}}

\* C21: criticalPathSteps returns exactly the actions whose isCriticalPath is true,
\* top-level or inside a parallel block, each once, never a block and never a
\* non-critical action, in ascending order of startMinute.
C21_CriticalPathSteps ==
    tl.op = "getCriticalPathSteps" =>
        /\ {tl.steps[i] : i \in DOMAIN tl.steps}
             = {a \in AllActions : a.isCriticalPath = Bool(TRUE)}
        /\ Len(tl.steps) = Cardinality({a \in AllActions : a.isCriticalPath = Bool(TRUE)})
        /\ \A i \in DOMAIN tl.steps : tl.steps[i].type = "action"
        /\ \A i \in 1..(Len(tl.steps) - 1) :
              tl.steps[i].startMinute <= tl.steps[i + 1].startMinute

\* a nested critical action is returned in front of a top-level one, the order
\* returned is not the order met in the timeline, and a non-critical action of
\* a block is left out
C21_Witness ==
    /\ tl.op = "getCriticalPathSteps"
    /\ \E i \in DOMAIN tl.steps : \E j \in DOMAIN tl.steps :
          /\ i < j
          /\ tl.steps[i].id > MaxLen
          /\ tl.steps[j].id <= MaxLen
    /\ tl.steps # CriticalFrom(tl.timeline, <<>>)
    /\ \E b \in DOMAIN tl.timeline :
          /\ tl.timeline[b].type = "parallel"
          /\ \E k \in DOMAIN tl.timeline[b].actions :
                tl.timeline[b].actions[k].isCriticalPath = Bool(FALSE)

\* C22: whatever calls were made, the timeline array holds the items it was
\* given in the order it was given them, the store is as it was, and the result
\* of the last call is the result for the timeline as given and the elapsed value.
C22_PureFunctions ==
    /\ tl.timeline = tl.given
    /\ tl.op # "none" => storage = NoItem
    /\ tl.op = "getUpcomingSteps" =>
          tl.steps = getUpcomingSteps(tl.given, tl.elapsedMinutes)
    /\ tl.op = "getNextStep" => tl.step = getNextStep(tl.given, tl.elapsedMinutes)
    /\ tl.op = "getCurrentStep" => tl.step = getCurrentStep(tl.given, tl.elapsedMinutes)
    /\ tl.op = "getCriticalPathSteps" => tl.steps = getCriticalPathSteps(tl.given)

\* a call returned the items of an unsorted timeline in another order
C22_Witness ==
    /\ tl.op = "getUpcomingSteps"
    /\ Len(tl.steps) = Len(tl.given)
    /\ tl.steps # tl.given
    /\ tl.given # Sort(tl.given)

----------------------------------------------------------------------------
(* The step cards *)

\* elapsedMs as updateTimerDisplay computes it in this state
ElapsedMsNow == getElapsedMs(storage, currentRecipeSlug, now).val.v

\* startMinute - elapsedMinutes of a card, in ms
RemainingMs(card) == card.startMinute * MsPerMinute - ElapsedMsNow

\* the display was last written by a tick or a recompute, at this instant
DisplayFresh ==
    /\ lastOp = Idle
    /\ elapsedShown * MsPerSecond = ElapsedMsNow

\* C23: in the state a tick leaves, a card is hidden iff its endMinute = startMinute +
\* durationMinutes is > 0 and elapsedMinutes > endMinute; so a card at minute 0
\* without duration is never hidden and a card is shown at elapsedMinutes =
\* endMinute.
C23_HiddenIffPast ==
    DisplayFresh =>
        \A i \in DOMAIN cards :
           LET endMinute == cards[i].startMinute + OrZero(cards[i].durationMinutes)
           IN cards[i].hidden <=>
                 (endMinute > 0 /\ ElapsedMsNow > endMinute * MsPerMinute)

\* after a tick one card is hidden, a card at minute 0 without duration is
\* shown, and a card is shown at its endMinute
C23_Witness ==
    /\ DisplayFresh
    /\ ElapsedMsNow > 0
    /\ \E i \in DOMAIN cards : cards[i].hidden
    /\ \E i \in DOMAIN cards :
          /\ cards[i].startMinute = 0
          /\ cards[i].durationMinutes = Undefined
          /\ ~cards[i].hidden
    /\ \E i \in DOMAIN cards :
          /\ cards[i].durationMinutes # Undefined
          /\ ElapsedMsNow = (cards[i].startMinute + cards[i].durationMinutes.v) * MsPerMinute
          /\ ~cards[i].hidden

\* minutes and seconds of a number of seconds under an hour
MinutesSeconds(seconds) == <<seconds \div SecondsPerMinute, seconds % SecondsPerMinute>>

\* C24: in the state a tick leaves, every card that is not hidden carries exactly one of done
\* and waiting: done with the text "Now" when startMinute - elapsedMinutes <= 0,
\* waiting with the text "T-" and the remaining time when it is > 0. The time
\* shown is the remaining time in whole seconds, rounded down; when a whole
\* number of seconds remains it is that number or, where the product of doubles
\* falls below it, one less.
C24_DoneOrWaiting ==
    DisplayFresh =>
        \A i \in DOMAIN cards :
           ~cards[i].hidden =>
              LET remainingMs == RemainingMs(cards[i])
              IN /\ Cardinality(cards[i].classes \cap {"done", "waiting"}) = 1
                 /\ remainingMs <= 0 =>
                       /\ "done" \in cards[i].classes
                       /\ cards[i].text.kind = "Now"
                 /\ remainingMs > 0 =>
                       /\ "waiting" \in cards[i].classes
                       /\ cards[i].text.kind = "T-"
                       /\ \/ cards[i].text.time =
                                MinutesSeconds(remainingMs \div MsPerSecond)
                          \/ /\ remainingMs % MsPerSecond = 0
                             /\ cards[i].text.time =
                                   MinutesSeconds(remainingMs \div MsPerSecond - 1)

\* after a tick a card that started earlier shows Now and a card still to
\* start, a whole number of seconds away, shows a countdown of one second less
C24_Witness ==
    /\ DisplayFresh
    /\ \E i \in DOMAIN cards :
          ~cards[i].hidden /\ RemainingMs(cards[i]) < 0 /\ cards[i].text = TextNow
    /\ \E i \in DOMAIN cards :
          /\ ~cards[i].hidden
          /\ "waiting" \in cards[i].classes
          /\ RemainingMs(cards[i]) > 0
          /\ RemainingMs(cards[i]) % MsPerSecond = 0
          /\ cards[i].text =
                [kind |-> "T-",
                 time |-> MinutesSeconds(RemainingMs(cards[i]) \div MsPerSecond - 1)]

\* the marks of a card, as either copy of timer.js makes them: next is
\* 'step-ticket--next' or the accent border, done is 'step-ticket--done' or the
\* dimming, firing is 'step-ticket--firing'
MarkedNext(card) ==
    IF script = CardScript THEN CardNextClasses \subseteq card.classes
    ELSE "next" \in card.classes
MarkedDone(card) ==
    IF script = CardScript THEN "opacity-60" \in card.classes
    ELSE "done" \in card.classes
MarkedFiring(card) == "firing" \in card.classes

\* C25: in the state a tick leaves, at most one card is marked next; it is the card with the
\* smallest strictly positive startMinute - elapsedMinutes, and none is marked
\* when no card has one; a card is marked firing iff it is the next card and
\* its remaining time is under half a minute.
C25_NextAndFiring ==
    DisplayFresh =>
        LET toStart == {i \in DOMAIN cards : RemainingMs(cards[i]) > 0}
            marked == {i \in DOMAIN cards : MarkedNext(cards[i])}
        IN /\ Cardinality(marked) <= 1
           /\ toStart = {} <=> marked = {}
           /\ \A i \in marked :
                 /\ i \in toStart
                 /\ \A j \in toStart : RemainingMs(cards[i]) <= RemainingMs(cards[j])
           /\ \A i \in DOMAIN cards :
                 MarkedFiring(cards[i]) <=>
                    (i \in marked /\ 2 * RemainingMs(cards[i]) < MsPerMinute)

\* the part of C25 about the next card: at most one card is marked next, the
\* one with the smallest strictly positive remaining time
C25_NextIsSoonest ==
    DisplayFresh =>
        LET toStart == {i \in DOMAIN cards : RemainingMs(cards[i]) > 0}
            marked == {i \in DOMAIN cards : MarkedNext(cards[i])}
        IN /\ Cardinality(marked) <= 1
           /\ toStart = {} <=> marked = {}
           /\ \A i \in marked :
                 /\ i \in toStart
                 /\ \A j \in toStart : RemainingMs(cards[i]) <= RemainingMs(cards[j])

\* what the page shows of the cards: a hidden card shows nothing
Shown(cds) ==
    [i \in DOMAIN cds |->
        IF cds[i].hidden
        THEN [hidden |-> TRUE, classes |-> {}, text |-> TextPlaceholder,
              countdownDone |-> FALSE, countdownClasses |-> {}]
        ELSE [hidden |-> FALSE, classes |-> cds[i].classes, text |-> cds[i].text,
              countdownDone |-> cds[i].countdownDone,
              countdownClasses |-> cds[i].countdownClasses]]

\* C27: whatever ticks were missed, the recompute made when the page becomes
\* visible shows the seconds of elapsedMs at that instant and the step states
\* derived from that elapsedMs alone: those a tick at that instant shows on the
\* page as rendered, whatever the cards showed before.
C27_RecomputeOnVisible ==
    [][visibilitychange("visible") =>
         /\ elapsedShown' = ElapsedMsNow \div MsPerSecond
         /\ Shown(cards') = Shown(updateStepCountdowns(RenderedCards(cards), ElapsedMsNow))]_vars

\* the display is that of this instant, and a card went from waiting to hidden
\* with no tick in between that would have shown it done
C27_Witness ==
    /\ DisplayFresh
    /\ ElapsedMsNow > MsPerMinute
    /\ \E i \in DOMAIN cards : cards[i].hidden /\ "waiting" \in cards[i].classes
    /\ \E i \in DOMAIN cards : ~cards[i].hidden

----------------------------------------------------------------------------
(* The periodic tick *)

\* C26: stopping the tick is idempotent. A pause or reset that stops a tick
\* already stopped leaves the handle and the intervals as they are, a stop
\* applied to what a stop leaves changes nothing, after a stop no interval is
\* left to fire, and none is while the handle is null. (lastOp names pause or
\* reset on the step in which it called stopTimerInterval, and on the clock's
\* steps after it.)
C26_StopIdempotent ==
    [][/\ timerInterval' = 0 => intervals' = {}
       /\ (lastOp'.op \in {"pause", "reset"} /\ ~lastOp'.threw) =>
             /\ timerInterval' = 0
             /\ intervals' = {}
             /\ timerInterval = 0 => UNCHANGED <<timerInterval, intervals>>
             /\ StopInterval(timerInterval', intervals')
                  = [timerInterval |-> timerInterval', intervals |-> intervals']]_vars

\* pauseTimer ran on a recipe that was paused already, and no tick is active
C26_Witness ==
    /\ lastOp.op = "pause"
    /\ ~lastOp.threw
    /\ pauseMark = NoMark
    /\ Paused(storage, currentRecipeSlug)
    /\ timerInterval = 0
    /\ intervals = {}

\* C30: at most one interval is active, and one is active iff the current
\* recipe's persisted state is Running.
C30_TickIffRunning ==
    /\ Cardinality(intervals) <= 1
    /\ intervals # {} <=> Running(storage, currentRecipeSlug)

----------------------------------------------------------------------------
(* Two tabs *)

\* both tabs ran their handlers to the end
TabsFinished == \A t \in Tabs : tabs[t].pc = "idle" /\ tabs[t].left = 0

\* C28: two tabs on the same recipe, their localStorage calls interleaved: the
\* recipe's entry is the whole state the last setItem wrote for it (no entry
\* when that was clearState's), and its pausedAt is set iff isPaused is true.
C28_LastWriterWins ==
    \A s \in Slugs :
       (\A t \in Tabs : tabs[t].slug = s) =>
          /\ written[s].by # 0 => getState(storage, s) = written[s].entry
          /\ LET r == getState(storage, s)
             IN r.k = "object" => (r.o.pausedAt # Null <=> r.o.isPaused = Bool(TRUE))

\* both tabs finished on the same recipe, and the tab that wrote last wrote
\* a state over a store that had changed since it read it
C28_Witness ==
    /\ TabsFinished
    /\ tabs[1].slug = tabs[2].slug
    /\ \E t \in Tabs :
          /\ tabs[t].stale
          /\ written[tabs[t].slug].by = t
          /\ written[tabs[t].slug].entry.k = "object"
          /\ getState(storage, tabs[t].slug) = written[tabs[t].slug].entry

\* C29: two tabs on two different recipes, their localStorage calls
\* interleaved: when both have finished, each recipe's entry is the one last
\* written for that recipe (the one it had at the start if none was).
C29_RecipesIndependent ==
    (TabsFinished /\ tabs[1].slug # tabs[2].slug) =>
        \A s \in Slugs : getState(storage, s) = written[s].entry

----------------------------------------------------------------------------
(* Elapsed time over the life of a timer *)

\* C31: with the clock never going back, elapsedMs of a recipe is a number that
\* is never negative, and no step lowers it except a start or a confirmed reset
\* of that recipe, after which it is 0: pause, resume, tick, the page becoming
\* visible, a reload and a change of recipe leave it as it was or higher. (A
\* step that leaves both the stored text and the clock alone leaves elapsedMs
\* alone.)
C31_ElapsedMonotonic ==
    /\ [](storage.kind # "corrupt" =>
            \A r \in Slugs :
                LET e == getElapsedMs(storage, r, now)
                IN ~e.threw /\ e.val.t = "number" /\ e.val.v >= 0)
    /\ [][(storage.kind # "corrupt" /\ (storage' # storage \/ now' # now)) =>
            /\ now' >= now
            /\ \A r \in Slugs :
                  getElapsedMs(storage', r, now').val.v
                      < getElapsedMs(storage, r, now).val.v =>
                     /\ lastOp'.op \in {"start", "reset"}
                     /\ r = currentRecipeSlug
                     /\ getElapsedMs(storage', r, now').val.v = 0]_vars

\* a timer with time on the clock has just been resumed after a pause that
\* lasted, while the other recipe sits paused with time on its clock
C31_Witness ==
    /\ lastOp = Op("resume", FALSE)
    /\ pauseMark.phase = "resumed"
    /\ now > pauseMark.at
    /\ ElapsedOf(currentRecipeSlug).val.v > 0
    /\ \E r \in Slugs \ {currentRecipeSlug} :
          Paused(storage, r) /\ ElapsedOf(r).val.v > 0

----------------------------------------------------------------------------
(* The step cards over a session *)

\* the state of recipe "a" as stored
SessionState == getState(storage, "a").o

\* start times from which the clock of a session runs past the end of every card
SessionStarts == {T0 + m * MsPerMinute : m \in 0..(SessionMinutes - (MaxMinute + 2))}

\* the timer runs, counting from t
RunningFrom(t) == Running(storage, "a") /\ SessionState.startTime = Num(t)

\* every card that has an end is hidden
EndedCardsHidden ==
    \A i \in DOMAIN cards :
        cards[i].startMinute + OrZero(cards[i].durationMinutes) > 0 => cards[i].hidden

\* C32: in a step other than a start or a confirmed reset (a pause, a resume, a
\* tick, the page becoming visible, a reload), a card that is hidden stays
\* hidden and a card that shows done keeps showing done, not waiting again,
\* until it is hidden; and when the timer stays Running, counting from the same
\* start, and its ticks keep firing (again and again the display is the one
\* written by a tick at the present instant), every card that has an end gets
\* hidden.
C32_DisplayMovesForward ==
    /\ [][~(startTimer(0) \/ resetTimer(TRUE)) =>
            \A i \in DOMAIN cards :
                /\ cards[i].hidden => cards'[i].hidden
                /\ (~cards[i].hidden /\ "done" \in cards[i].classes) =>
                      \/ cards'[i].hidden
                      \/ /\ "done" \in cards'[i].classes
                         /\ "waiting" \notin cards'[i].classes
                         /\ cards'[i].text = TextNow]_vars
    /\ \A t \in SessionStarts :
          (<>[]RunningFrom(t) /\ []<>DisplayFresh) => <>EndedCardsHidden

\* a timer that was paused for a while and resumed runs with a card that showed
\* done now hidden, and a card that waited now showing done
C32_Witness ==
    /\ Running(storage, "a")
    /\ pauseMark.phase = "resumed"
    /\ now > pauseMark.at
    /\ \E i \in DOMAIN cards : cards[i].hidden /\ "done" \in cards[i].classes
    /\ \E i \in DOMAIN cards :
          ~cards[i].hidden /\ "done" \in cards[i].classes /\ cards[i].startMinute > 0

\* C33: right after a confirmed reset the display is the not-started one,
\* whatever the elapsed time was: every card is shown, none is marked done or
\* firing, every countdown reads the placeholder without its done mark, the
\* countdowns are hidden, and the cards are as the page renders them (but for
\* the colour of the hidden countdowns of .step-card cards, which is left
\* 'text-accent').
C33_ResetDisplay ==
    lastOp = Op("reset", FALSE) =>
        /\ controls.countdowns
        /\ controls = ShowControls(ControlsStopped)
        /\ \A i \in DOMAIN cards :
              /\ ~cards[i].hidden
              /\ ~MarkedDone(cards[i])
              /\ ~MarkedFiring(cards[i])
              /\ cards[i].text = TextPlaceholder
              /\ ~cards[i].countdownDone
        /\ [i \in DOMAIN cards |-> [cards[i] EXCEPT !.countdownClasses = {}]]
              = RenderedCards(cards)

\* the part of C33 that does not depend on the cards being shown: after a
\* confirmed reset no card is marked done, firing or next by a border, every
\* countdown reads the placeholder, and the countdowns are hidden
C33_ResetMarks ==
    lastOp = Op("reset", FALSE) =>
        /\ controls = ShowControls(ControlsStopped)
        /\ \A i \in DOMAIN cards :
              /\ ~MarkedDone(cards[i])
              /\ ~MarkedFiring(cards[i])
              /\ cards[i].text = TextPlaceholder
              /\ ~cards[i].countdownDone

----------------------------------------------------------------------------
(* Start, and the serving size *)

\* C34: a start that takes effect, whatever the state of the current recipe was
\* (Stopped, Running or Paused), leaves as its stored state exactly startTime =
\* now, the serving size selected, currentStepId null, isPaused false and
\* pausedAt null: the recipe is Running with elapsedMs 0 at that instant,
\* nothing of the state before is kept, and exactly one tick is active.
C34_StartOverwrites ==
    [][(lastOp' = Op("start", FALSE) /\ now' = now) =>
        LET g == getState(storage', currentRecipeSlug)
        IN /\ g.k = "object"
           /\ g.o.startTime = Num(now)
           /\ g.o.isPaused = Bool(FALSE)
           /\ g.o.pausedAt = Null
           /\ g.o.currentStepId = Null
           /\ g.o.servingSize \in {Num(n) : n \in Servings \cup {DefaultServing}}
           /\ Ctl(storage', currentRecipeSlug) = "Running"
           /\ getElapsedMs(storage', currentRecipeSlug, now') = Returned(0)
           /\ timerInterval' # 0
           /\ intervals' = {timerInterval'}]_vars

\* a start has just taken effect after the clock moved on, with the other
\* recipe paused with time on its clock: the started recipe reads 0
C34_Witness ==
    /\ lastOp = Op("start", FALSE)
    /\ now > T0
    /\ getState(storage, currentRecipeSlug).o.startTime = Num(now)
    /\ intervals = {timerInterval}
    /\ \E r \in Slugs \ {currentRecipeSlug} : Paused(storage, r) /\ ElapsedOf(r).val.v > 0

\* C35: a change of serving size on a recipe whose timer is Running or Paused
\* changes the servingSize of its stored state and nothing else: startTime,
\* isPaused, pausedAt and currentStepId are as before, and so are elapsedMs,
\* the control state, the controls shown and the tick.
C35_ServingSizeOnly ==
    [][(lastOp' = Op("serving", FALSE) /\ now' = now
            /\ Started(storage, currentRecipeSlug)) =>
        LET old == getState(storage, currentRecipeSlug).o
            new == getState(storage', currentRecipeSlug).o
        IN /\ \A f \in Fields \ {"servingSize"} : new[f] = old[f]
           /\ new.servingSize \in {Num(n) : n \in Servings}
           /\ getElapsedMs(storage', currentRecipeSlug, now')
                 = getElapsedMs(storage, currentRecipeSlug, now)
           /\ Ctl(storage', currentRecipeSlug) = Ctl(storage, currentRecipeSlug)
           /\ UNCHANGED <<controls, timerInterval, intervals, elapsedShown>>]_vars

\* the serving size of a recipe paused a while ago, with time on its clock, has
\* just been changed to one other than the default
C35_Witness ==
    /\ lastOp = Op("serving", FALSE)
    /\ Paused(storage, currentRecipeSlug)
    /\ ElapsedOf(currentRecipeSlug).val.v > 0
    /\ now > getState(storage, currentRecipeSlug).o.pausedAt.v
    /\ getState(storage, currentRecipeSlug).o.servingSize # Num(DefaultServing)
    /\ controls = ControlsPaused

----------------------------------------------------------------------------
(* Process generation *)

\* the sum of the durations of the first n steps, a missing one counted as 0
RECURSIVE SumOfDurations(_, _)
SumOfDurations(steps, n) ==
    IF n = 0 THEN 0
    ELSE SumOfDurations(steps, n - 1) + OrZero(steps[n].durationMinutes)

\* process p lays the steps out one after the other
Sequential(p, steps) ==
    /\ Len(p.timeline) = Len(steps)
    /\ \A i \in DOMAIN p.timeline :
          /\ p.timeline[i].id = steps[i].id
          /\ p.timeline[i].type = "action"
          /\ p.timeline[i].durationMinutes = Num(OrZero(steps[i].durationMinutes))
          /\ p.timeline[i].startMinute = SumOfDurations(steps, i - 1)
    /\ (steps # <<>> => p.timeline[1].startMinute = 0)
    /\ p.totalDurationMinutes = SumOfDurations(steps, Len(steps))

\* the timing of a process: startMinute and durationMinutes of each action, and
\* the total
Timing(p) ==
    [starts |-> [i \in DOMAIN p.timeline |-> p.timeline[i].startMinute],
     durations |-> [i \in DOMAIN p.timeline |-> p.timeline[i].durationMinutes],
     total |-> p.totalDurationMinutes]

\* C36: the process generated from a recipe has one action per step, in step
\* order, the first at minute 0, each starting at the sum of the durations of
\* the steps before it (a missing duration counting 0), with
\* totalDurationMinutes the sum of all durations; and generate-process.js and
\* image-to-recipe.js give the same startMinute, durationMinutes and total for
\* the same steps.
C36_SequentialLayout ==
    /\ run.process # NoProcess => Sequential(run.process, run.steps)
    /\ run.cooking # NoProcess => Sequential(run.cooking, run.steps)
    /\ (run.process # NoProcess /\ run.cooking # NoProcess) =>
          Timing(run.process) = Timing(run.cooking)

\* both generators have run on a recipe of MaxLen steps, one without a
\* duration, one of no length and one that lasts
C36_Witness ==
    /\ run.process # NoProcess
    /\ run.cooking # NoProcess
    /\ Len(run.steps) = MaxLen
    /\ run.steps[1].durationMinutes = Num(MaxMinute)
    /\ \E i \in DOMAIN run.steps : run.steps[i].durationMinutes = Undefined
    /\ run.process.timeline[MaxLen].startMinute > MaxMinute

\* the positions of the actions whose window holds e
WindowsHolding(timeline, e) == {i \in DOMAIN timeline : InWindow(timeline[i], e)}

\* no step has a negative duration
NonNegative(steps) == \A i \in DOMAIN steps : OrZero(steps[i].durationMinutes) >= 0

\* C37: on a timeline generated from steps with non-negative durations, for
\* every elapsed value e at most one action's window [startMinute, startMinute +
\* durationMinutes) holds e, so that getCurrentStep gives the same whether the
\* last or the first match wins; for 0 <= e < totalDurationMinutes it gives an
\* action, the one whose window holds e; and so does the call made.
C37_OneCurrentStep ==
    (run.process # NoProcess /\ NonNegative(run.steps)) =>
        LET T == run.process.timeline
        IN /\ \A e \in GenElapsed :
                /\ Cardinality(WindowsHolding(T, e)) <= 1
                /\ getCurrentStep(T, e) = getCurrentStepFirst(T, e)
                /\ e < run.process.totalDurationMinutes =>
                      /\ getCurrentStep(T, e) # NoStep
                      /\ \E i \in WindowsHolding(T, e) : getCurrentStep(T, e) = T[i]
           /\ run.asked =>
                /\ run.step = getCurrentStepFirst(T, run.elapsedMinutes)
                /\ run.elapsedMinutes < run.process.totalDurationMinutes =>
                      run.step # NoStep

\* the current step was asked for inside the window of a later step, on a recipe
\* of MaxLen steps one of which has no length
C37_Witness ==
    /\ run.asked
    /\ NonNegative(run.steps)
    /\ Len(run.steps) = MaxLen
    /\ run.step # NoStep
    /\ run.step.id > 1
    /\ run.step.startMinute < run.elapsedMinutes
    /\ \E i \in DOMAIN run.steps : OrZero(run.steps[i].durationMinutes) = 0

----------------------------------------------------------------------------
(* Validation *)

\* every entry of the file passes the schema
AllEntriesPass(file) == \A i \in DOMAIN file.entries : file.entries[i]

\* the command exits 0 exactly when every data file that exists validates, and
\* otherwise 1, with a warning and nothing more for a missing file
ExitsByValidation ==
    run.op = "main" =>
        /\ run.exit.status \in {0, 1}
        /\ run.exit.status = 0 <=>
              \A file \in {run.recipes, run.processes} :
                  existsSync(file) => validateFile(file).val
        /\ run.exit.warnings =
              {name \in {"recipes.json", "processes.json"} :
                  ~existsSync(IF name = "recipes.json" THEN run.recipes
                              ELSE run.processes)}

\* C38 as stated: validateFile returns true exactly when the file can be read
\* and parsed and every top-level entry passes the schema, without raising; and
\* the command exits 0 iff every data file that exists validates, else 1.
C38_AsStated ==
    /\ run.op = "validateFile" =>
          /\ ~run.returned.threw
          /\ run.returned.val <=>
                (run.file.kind \in {"null", "value"} /\ AllEntriesPass(run.file))
    /\ ExitsByValidation

\* C38: validateFile returns true exactly when the file can be read, parses to
\* a value other than null, and every top-level entry passes the schema; a file
\* that is missing, unreadable, unparseable or holds null yields false, not an
\* exception; and the command exits 0 iff every data file that exists
\* validates, a missing data file being only a warning, and otherwise exits 1.
C38_ValidationOutcome ==
    /\ run.op = "validateFile" =>
          /\ ~run.returned.threw
          /\ run.returned.val <=>
                (run.file.kind = "value" /\ AllEntriesPass(run.file))
    /\ ExitsByValidation

\* the command has exited 1 with recipes.json missing, which is only warned
\* about, and processes.json holding null, which does not validate
C38_Witness ==
    /\ run.op = "main"
    /\ run.exit.status = 1
    /\ run.exit.warnings = {"recipes.json"}
    /\ run.processes.kind = "null"
    /\ ~validateFile(run.processes).val

====
